---- MODULE Spec2Model ----
(***************************************************************************)
(* A model of shardcache: a sharded in-memory key/value cache with an      *)
(* intrusive MRU/LRU list per shard, pluggable eviction policies (LRU,     *)
(* 2Q), lazy TTL expiration and cost-based limits.                         *)
(*                                                                         *)
(* Every shard method runs under the shard's exclusive lock, so each       *)
(* public operation is one atomic action of the model.                     *)
(***************************************************************************)
EXTENDS Integers, Sequences, FiniteSets, TLC

----------------------------------------------------------------------------
(* Bounds of the model *)

MaxKey    == 3      \* keys are 1..MaxKey
MaxClock  == 2      \* the clock runs over 0..MaxClock
MaxEvicts == 2      \* cap on a shard's eviction counter
MaxCallers == 3     \* goroutines calling GetOrLoad
MaxProcs  == 130    \* runtime.GOMAXPROCS(0) ranges over 1..MaxProcs

Keys == 1..MaxKey   \* int keys
Vals == {1, 2}      \* int values
TTLs == {-1, 0, 1}  \* relative TTLs handed to SetWithTTL

----------------------------------------------------------------------------
(* Program constants *)

NIL == 0            \* the nil pointer / absent map entry

EvictPolicy   == 0
EvictTTL      == 1
EvictCapacity == 2

MaxInt32 == 2147483647

\* Low byte of fnvOffset64 (1469598103934665603 % 256) and of fnvPrime64
\* (1099511628211 % 256).  The shard index is hash & (S-1) with S <= 256, so
\* only the low byte of the 64-bit digest is observable; the low byte of a
\* product or an xor depends only on the low bytes of the operands.
fnvOffset64 == 131
fnvPrime64  == 179
HashMod     == 256

NodeIds == 1..(2 * MaxKey)   \* node addresses

----------------------------------------------------------------------------
(* Bit and sequence helpers *)

RECURSIVE BitXor(_, _)
BitXor(a, b) ==
  IF a = 0 THEN b
  ELSE IF b = 0 THEN a
  ELSE ((((a % 2) + (b % 2)) % 2)) + 2 * BitXor(a \div 2, b \div 2)

RECURSIVE BitAnd(_, _)
BitAnd(a, b) ==
  IF a = 0 \/ b = 0 THEN 0
  ELSE ((a % 2) * (b % 2)) + 2 * BitAnd(a \div 2, b \div 2)

RECURSIVE BitOr(_, _)
BitOr(a, b) ==
  IF a = 0 THEN b
  ELSE IF b = 0 THEN a
  ELSE (IF a % 2 = 1 \/ b % 2 = 1 THEN 1 ELSE 0) + 2 * BitOr(a \div 2, b \div 2)

RECURSIVE Pow2(_)
Pow2(n) == IF n = 0 THEN 1 ELSE 2 * Pow2(n - 1)

Shr(x, n) == x \div Pow2(n)

Range(f) == {f[i] : i \in DOMAIN f}

\* container/list.Remove(e) for the element holding x: drop its occurrence.
RECURSIVE SeqRemove(_, _)
SeqRemove(q, x) ==
  IF q = <<>> THEN <<>>
  ELSE IF Head(q) = x THEN Tail(q)
  ELSE <<Head(q)>> \o SeqRemove(Tail(q), x)

Front(q) == SubSeq(q, 1, Len(q) - 1)

----------------------------------------------------------------------------
(* util: hashing and shard-count helpers *)

\* NextPow2: the bit-fill of the source, on inputs below 2^30.
NextPow2(x) ==
  IF x <= 1 THEN 1
  ELSE LET x0 == x - 1
           x1 == BitOr(x0, Shr(x0, 1))
           x2 == BitOr(x1, Shr(x1, 2))
           x3 == BitOr(x2, Shr(x2, 4))
           x4 == BitOr(x3, Shr(x3, 8))
           x5 == BitOr(x4, Shr(x4, 16))
       IN x5 + 1

ReasonableShardCount(procs) ==
  LET p == IF procs < 1 THEN 1 ELSE procs
      n == NextPow2(p * 2)
      n1 == IF n < 1 THEN 1 ELSE n
  IN IF n1 > 256 THEN 256 ELSE n1

\* fnv64aFromUint64: eight rounds over the little-endian bytes of u.
RECURSIVE fnvRounds(_, _, _)
fnvRounds(h, u, i) ==
  IF i = 8 THEN h
  ELSE fnvRounds((BitXor(h, u % 256) * fnvPrime64) % HashMod, u \div 256, i + 1)

fnv64aFromUint64(u) == fnvRounds(fnvOffset64, u, 0)

Fnv64a(k) == fnv64aFromUint64(k)

----------------------------------------------------------------------------
(* State *)

VARIABLES
  opt,      \* Options the cache was built with
  procs,    \* runtime.GOMAXPROCS(0)
  shards,   \* cache.shards: index -> shard
  heap,     \* node address -> node
  clock,    \* the time source (Options.Clock or time.Now)
  closed,   \* cache.closed
  env,      \* the workload: the keys, values and TTLs callers use
  last,     \* the last public call and what it returned
  metrics,  \* Metrics events emitted by the last call, in order
  onEvict,  \* OnEvict callbacks made by the last call, in order
  callers,  \* goroutine -> where it is in GetOrLoad, and its locals
  sf,       \* cache.sf: the singleflight group (m) and the calls it has made
  loads     \* key -> number of times Options.Loader was invoked for it

vars == <<opt, procs, shards, heap, clock, closed, env, last, metrics, onEvict,
          callers, sf, loads>>

\* The variables of the GetOrLoad callers and of the singleflight group.
lvars == <<callers, sf, loads>>

\* A node that no pointer refers to.
Blank == [key |-> NIL, val |-> NIL, exp |-> 0, cost |-> 0, prev |-> NIL, next |-> NIL]

node(k, v, ttl, cost) ==
  [key |-> k, val |-> v, exp |-> ttl, cost |-> cost, prev |-> NIL, next |-> NIL]

\* twoq.New clamps both capacities to at least 1.
twoqNew(capIn, capGhost) ==
  [capIn |-> IF capIn < 1 THEN 1 ELSE capIn,
   capGhost |-> IF capGhost < 1 THEN 1 ELSE capGhost]

\* newShard: an empty shard; maxCost splits opt.MaxCost by opt.Shards.
newShard(capacity, o, p) ==
  LET sh == IF o.Shards <= 0 THEN ReasonableShardCount(p) ELSE o.Shards
      q  == twoqNew(o.capIn, o.capGhost)
  IN [mu |-> [w |-> NIL, r |-> {}],
      m |-> [k \in Keys |-> NIL], head |-> NIL, tail |-> NIL,
      len |-> 0, cost |-> 0, cap |-> capacity,
      maxCost |-> IF o.MaxCost > 0 THEN (o.MaxCost + sh - 1) \div sh ELSE 0,
      evicts |-> 0,
      capIn |-> q.capIn, capGhost |-> q.capGhost,
      inList |-> <<>>, inIdx |-> {}, ghostList |-> <<>>, ghostIdx |-> {}]

\* A shard count that is not rounded up to a power of two.
NumShards_exact(o, p) ==
  IF o.Shards <= 0
  THEN LET sh == NextPow2(2 * p) IN IF sh < 1 THEN 1 ELSE sh
  ELSE o.Shards

\* New: the number of shards and the per-shard capacity.
NumShards(o, p) ==
  IF o.Shards <= 0
  THEN LET sh == NextPow2(2 * p) IN IF sh < 1 THEN 1 ELSE sh
  ELSE NextPow2(o.Shards)

New(o, p) ==
  LET sh == NumShards(o, p)
      perShardCap == (o.Capacity + sh - 1) \div sh
  IN [i \in 0..(sh - 1) |-> newShard(perShardCap, o, p)]

\* getShard: hash & (len(shards) - 1).
getShard(k) == BitAnd(Fnv64a(k), Cardinality(DOMAIN shards) - 1)

----------------------------------------------------------------------------
(* Intrusive list primitives.  A world w is what one shard method works on *)
(* while it holds the lock: the shard s, the node heap nd, and the events  *)
(* it has emitted so far (ml: Metrics, cb: OnEvict).  The statements of a  *)
(* method are applied in source order, each to the result of the previous. *)

\* p.next = x, guarded by p != nil.
SetNext(nd, p, x) == IF p # NIL THEN [nd EXCEPT ![p].next = x] ELSE nd

\* x.prev = p, guarded by x != nil.
SetPrev(nd, x, p) == IF x # NIL THEN [nd EXCEPT ![x].prev = p] ELSE nd

\* n.prev, n.next = p, x
Link(nd, n, p, x) == [nd EXCEPT ![n].prev = p, ![n].next = x]

IfNil(a, b) == IF a = NIL THEN b ELSE a

Clamp0(c) == IF c < 0 THEN 0 ELSE c

\* if n.prev != nil { n.prev.next = n.next }; if n.next != nil { n.next.prev = n.prev }
detachNext(nd, n) == SetPrev(nd, nd[n].next, nd[n].prev)
detach(nd, n) == detachNext(SetNext(nd, nd[n].prev, nd[n].next), n)

\* An insertFront that leaves s.len alone.
insertFront_uncounted(w, n) ==
  [w EXCEPT !.nd = SetPrev(Link(w.nd, n, NIL, w.s.head), w.s.head, n),
            !.s.head = n,
            !.s.tail = IfNil(w.s.tail, n),
            !.s.cost = w.s.cost + w.nd[n].cost]

insertFront(w, n) ==
  [w EXCEPT !.nd = SetPrev(Link(w.nd, n, NIL, w.s.head), w.s.head, n),
            !.s.head = n,
            !.s.tail = IfNil(w.s.tail, n),
            !.s.len  = w.s.len + 1,
            !.s.cost = w.s.cost + w.nd[n].cost]

\* moveToFront after the detach: nd is the heap with n unlinked.
relinkFront(w, nd, n) ==
  [w EXCEPT !.nd = SetPrev(Link(nd, n, NIL, w.s.head), w.s.head, n),
            !.s.head = n,
            !.s.tail = IfNil(IF w.s.tail = n THEN nd[n].prev ELSE w.s.tail, n)]

moveToFront(w, n) ==
  IF n = w.s.head THEN w ELSE relinkFront(w, detach(w.nd, n), n)

\* removeNode after the detach: nd is the heap with n unlinked.
unlinked(w, nd, n) ==
  [w EXCEPT !.nd = Link(nd, n, NIL, NIL),
            !.s.head = IF w.s.head = n THEN nd[n].next ELSE w.s.head,
            !.s.tail = IF w.s.tail = n THEN nd[n].prev ELSE w.s.tail,
            !.s.len  = w.s.len - 1,
            !.s.cost = Clamp0(w.s.cost - nd[n].cost)]

\* removeNode that forgets to advance head when the head is removed.
removeNode_keepHead(w, n) ==
  [unlinked(w, detach(w.nd, n), n) EXCEPT !.s.head = w.s.head]

removeNode(w, n) == unlinked(w, detach(w.nd, n), n)

\* A back that hands out the MRU node.
back_head(w) == w.s.head

back(w) == w.s.tail

----------------------------------------------------------------------------
(* Policies.  OnAdd returns the world and the eviction candidate ev.       *)

lruOnAdd(w, n) == [w |-> insertFront(w, n), ev |-> NIL]

\* A Get hit that leaves the recency order alone.
lruOnGet_noPromote(w, n) == w

lruOnGet(w, n) == moveToFront(w, n)

lruOnUpdate(w, n) == moveToFront(w, n)

lruOnRemove(w, n) == w

\* An overflow test that proposes the LRU node of the shard list.
a1inCandidate_tail(w) ==
  [w |-> w, ev |-> IF Len(w.s.inList) > w.s.capIn THEN w.s.tail ELSE NIL]

\* The A1in overflow test at the end of OnAdd.
a1inCandidate(w) ==
  [w |-> w,
   ev |-> IF Len(w.s.inList) > w.s.capIn THEN w.s.inList[Len(w.s.inList)] ELSE NIL]

\* q.inIdx[n] = q.inList.PushFront(n)
a1inPush(w, n) ==
  [w EXCEPT !.s.inList = <<n>> \o w.s.inList, !.s.inIdx = w.s.inIdx \cup {n}]

\* A second chance that leaves the key among the ghosts.
ghostDrop_keep(w, k) == w

\* q.ghostList.Remove(ge); delete(q.ghostIdx, k)
ghostDrop(w, k) ==
  [w EXCEPT !.s.ghostList = SeqRemove(w.s.ghostList, k), !.s.ghostIdx = w.s.ghostIdx \ {k}]

\* An OnAdd that admits every node into A1in, ghost or not.
twoQOnAdd_noGhost(w, n) == a1inCandidate(a1inPush(insertFront(w, n), n))

twoQOnAdd(w, n) ==
  IF w.nd[n].key \in w.s.ghostIdx
  THEN [w |-> insertFront(ghostDrop(w, w.nd[n].key), n), ev |-> NIL]
  ELSE a1inCandidate(a1inPush(insertFront(w, n), n))

\* An A1in that never forgets a node.
a1inDrop_keep(w, n) == w

\* q.inList.Remove(el); delete(q.inIdx, n), when n is indexed.
a1inDrop(w, n) ==
  IF n \in w.s.inIdx
  THEN [w EXCEPT !.s.inList = SeqRemove(w.s.inList, n), !.s.inIdx = w.s.inIdx \ {n}]
  ELSE w

\* An OnGet that promotes in the shard list and leaves the node in A1in.
twoQOnGet_stay(w, n) == moveToFront(w, n)

twoQOnGet(w, n) == moveToFront(a1inDrop(w, n), n)

twoQOnUpdate(w, n) == twoQOnGet(w, n)

\* The trim loop of OnRemove: drop LRU ghosts while over capGhost.
RECURSIVE trimGhosts(_)
trimGhosts(w) ==
  IF Len(w.s.ghostList) > w.s.capGhost
  THEN trimGhosts([w EXCEPT !.s.ghostIdx = w.s.ghostIdx \ {w.s.ghostList[Len(w.s.ghostList)]},
                            !.s.ghostList = Front(w.s.ghostList)])
  ELSE w

\* Insert the key at the MRU end of the ghosts, moving an existing entry.
ghostPush(w, k) ==
  [w EXCEPT !.s.ghostList = <<k>> \o (IF k \in w.s.ghostIdx
                                     THEN SeqRemove(w.s.ghostList, k)
                                     ELSE w.s.ghostList),
            !.s.ghostIdx = w.s.ghostIdx \cup {k}]

\* An OnRemove that records the key of every removed node as a ghost.
twoQOnRemove_always(w, n) == trimGhosts(ghostPush(a1inDrop(w, n), w.nd[n].key))

twoQOnRemove(w, n) ==
  IF n \in w.s.inIdx
  THEN trimGhosts(ghostPush(a1inDrop(w, n), w.nd[n].key))
  ELSE w

\* Dispatch on Options.Policy (the ShardPolicy interface).
OnAdd(w, n)    == IF opt.Policy = "twoq" THEN twoQOnAdd(w, n) ELSE lruOnAdd(w, n)
OnGet(w, n)    == IF opt.Policy = "twoq" THEN twoQOnGet(w, n) ELSE lruOnGet(w, n)
OnUpdate(w, n) == IF opt.Policy = "twoq" THEN twoQOnUpdate(w, n) ELSE lruOnUpdate(w, n)
OnRemove(w, n) == IF opt.Policy = "twoq" THEN twoQOnRemove(w, n) ELSE lruOnRemove(w, n)

----------------------------------------------------------------------------
(* Shard internals (mu held) *)

Ev(e, a, b) == [e |-> e, a |-> a, b |-> b]

Emit(w, e) == [w EXCEPT !.ml = Append(w.ml, e)]

\* An expiry test that ignores the deadline.
expiredLocked_never(w, n, now) == FALSE

\* An expiry test that counts the deadline itself as expired.
expiredLocked_atDeadline(w, n, now) ==
  IF w.nd[n].exp = 0 THEN FALSE ELSE now >= w.nd[n].exp

expiredLocked(w, n, now) ==
  IF w.nd[n].exp = 0 THEN FALSE ELSE now > w.nd[n].exp

\* The shard method has executed the statement what on the node of key k.
Did(w, what, k) == [w EXCEPT !.tr = Append(w.tr, [do |-> what, k |-> k])]

\* delete(s.m, n.key)
deleted(w, n) == Did([w EXCEPT !.s.m[w.nd[n].key] = NIL], "delete", w.nd[n].key)

\* s.evicts.Add(1)
counted(w, n) == Did([w EXCEPT !.s.evicts = w.s.evicts + 1], "evicts.Add", w.nd[n].key)

\* s.opt.Metrics.Evict(reason)
reported(w, n, reason) ==
  Did(Emit(w, Ev("Evict", reason, 0)), "Metrics.Evict", w.nd[n].key)

\* if cb := s.opt.OnEvict; cb != nil { cb(n.key, n.val, reason) }
calledBack(w, n, reason) ==
  IF opt.OnEvict
  THEN Did([w EXCEPT !.cb = Append(w.cb, [k |-> w.nd[n].key, v |-> w.nd[n].val,
                                          reason |-> reason])],
           "OnEvict", w.nd[n].key)
  ELSE w

\* An eviction that tells Metrics nothing.
evicted_noMetric(w, n, reason) == calledBack(counted(deleted(w, n), n), n, reason)

\* An eviction that calls OnEvict before the entry is out of the map.
evicted_callbackFirst(w, n, reason) ==
  reported(counted(deleted(calledBack(w, n, reason), n), n), n, reason)

\* The tail of evictNode, once the node is off the list: delete(s.m, n.key),
\* evicts.Add(1), Metrics.Evict(reason), OnEvict(n.key, n.val, reason).
evicted(w, n, reason) ==
  calledBack(reported(counted(deleted(w, n), n), n, reason), n, reason)

\* s.pol.OnRemove(n); s.removeNode(n)
unhooked(w, n) ==
  Did(removeNode(Did(OnRemove(w, n), "OnRemove", w.nd[n].key), n),
      "removeNode", w.nd[n].key)

evictNode(w, n, reason) == evicted(unhooked(w, n), n, reason)

\* A count loop that never evicts.
countLimit_off(w) == w

RECURSIVE countLimit(_)
countLimit(w) ==
  IF w.s.len > w.s.cap /\ back(w) # NIL
  THEN countLimit(evictNode(w, back(w), EvictPolicy))
  ELSE w

\* A cost loop that never evicts.
costLimit_off(w) == w

RECURSIVE costLimit(_)
costLimit(w) ==
  IF w.s.cost > w.s.maxCost /\ back(w) # NIL
  THEN costLimit(evictNode(w, back(w), EvictCapacity))
  ELSE w

costLimitIfOn(w) == IF w.s.maxCost > 0 THEN costLimit(w) ELSE w

reportSize(w) == Emit(w, Ev("Size", w.s.len, w.s.cost))

\* A limit enforcement that reports the size before it trims.
enforceLimitsLocked_early(w) == costLimitIfOn(countLimit(reportSize(w)))

enforceLimitsLocked(w) == reportSize(costLimitIfOn(countLimit(w)))

\* n := &node{...}: a free address.  The allocator hands the node of key k
\* the address k, or k + MaxKey while the address k is still referenced.
alloc(nd, k) == IF nd[k] = Blank THEN k ELSE k + MaxKey

\* if ev := s.pol.OnAdd(n); ev != nil { s.evictNode(ev, EvictPolicy) }
evictCandidate(r) == IF r.ev # NIL THEN evictNode(r.w, r.ev, EvictPolicy) ELSE r.w

\* The new-entry path shared by Add and Set, with the node at address n.
admitAt(w, n, k, v, ttl, cost) ==
  enforceLimitsLocked(evictCandidate(
    OnAdd([w EXCEPT !.nd[n] = node(k, v, ttl, cost), !.s.m[k] = n], n)))

admit(w, k, v, ttl, cost) == admitAt(w, alloc(w.nd, k), k, v, ttl, cost)

Result(w, ok, val) == [w |-> w, ok |-> ok, val |-> val]

----------------------------------------------------------------------------
(* Shard methods.  Each returns the world after the call and its result.   *)

\* Add that overwrites the value of a resident key before reporting false.
shardAdd_overwrite(w, k, v, ttl, cost) ==
  IF w.s.m[k] # NIL
  THEN Result([w EXCEPT !.nd[w.s.m[k]].val = v], FALSE, NIL)
  ELSE Result(admit(w, k, v, ttl, cost), TRUE, NIL)

\* An Add that replaces a resident entry whose deadline has passed.
shardAdd_expiring(w, k, v, ttl, cost) ==
  IF w.s.m[k] # NIL /\ ~expiredLocked(w, w.s.m[k], clock)
  THEN Result(w, FALSE, NIL)
  ELSE IF w.s.m[k] # NIL
  THEN Result(admit(evictNode(w, w.s.m[k], EvictTTL), k, v, ttl, cost), TRUE, NIL)
  ELSE Result(admit(w, k, v, ttl, cost), TRUE, NIL)

shardAdd(w, k, v, ttl, cost) ==
  IF w.s.m[k] # NIL
  THEN Result(w, FALSE, NIL)
  ELSE Result(admit(w, k, v, ttl, cost), TRUE, NIL)

\* An in-place update that leaves the shard's cost sum alone.
update_noDelta(w, n, v, ttl, cost) ==
  [w EXCEPT !.nd[n].val = v, !.nd[n].exp = ttl, !.nd[n].cost = cost]

\* The in-place update of Set on the resident node n.
update(w, n, v, ttl, cost) ==
  [w EXCEPT !.nd[n].val = v, !.nd[n].exp = ttl, !.nd[n].cost = cost,
            !.s.cost = w.s.cost + (cost - w.nd[n].cost)]

\* A Set that leaves a resident key as it is.
shardSet_keepOld(w, k, v, ttl, cost) ==
  IF w.s.m[k] # NIL
  THEN Result(w, TRUE, NIL)
  ELSE Result(admit(w, k, v, ttl, cost), TRUE, NIL)

shardSet(w, k, v, ttl, cost) ==
  IF w.s.m[k] # NIL
  THEN Result(enforceLimitsLocked(OnUpdate(update(w, w.s.m[k], v, ttl, cost), w.s.m[k])),
              TRUE, NIL)
  ELSE Result(admit(w, k, v, ttl, cost), TRUE, NIL)

\* Get has executed the statement what (a counter increment or a policy
\* call); ct is the list of these for the call.
Counted(w, what) == [w EXCEPT !.ct = Append(w.ct, what)]

\* A miss that is counted and not reported to Metrics.
missed_silent(w) == Counted(w, "misses.Add")

\* s.misses.Add(1); s.opt.Metrics.Miss()
missed(w) == Emit(Counted(w, "misses.Add"), Ev("Miss", 0, 0))

\* s.pol.OnGet(n); s.hits.Add(1); s.opt.Metrics.Hit()
hit(w, n) == Emit(Counted(Counted(OnGet(w, n), "OnGet"), "hits.Add"), Ev("Hit", 0, 0))

\* Get on a resident node n.
getNode(w, n, now) ==
  IF expiredLocked(w, n, now)
  THEN Result(missed(evictNode(w, n, EvictTTL)), FALSE, NIL)
  ELSE Result(hit(w, n), TRUE, w.nd[n].val)

shardGet(w, k, now) ==
  IF w.s.m[k] = NIL
  THEN Result(missed(w), FALSE, NIL)
  ELSE getNode(w, w.s.m[k], now)

\* A Remove that leaves the key in the map.
mapDelete_skip(w, k) == w

\* delete(s.m, k)
mapDelete(w, k) == [w EXCEPT !.s.m[k] = NIL]

\* Remove that goes through the eviction routine.
shardRemove_evicts(w, k) ==
  IF w.s.m[k] = NIL
  THEN Result(w, FALSE, NIL)
  ELSE Result(evictNode(w, w.s.m[k], EvictPolicy), TRUE, NIL)

shardRemove(w, k) ==
  IF w.s.m[k] = NIL
  THEN Result(w, FALSE, NIL)
  ELSE Result(mapDelete(removeNode(OnRemove(w, w.s.m[k]), w.s.m[k]), k), TRUE, NIL)

shardLen(s) == s.len

----------------------------------------------------------------------------
(* Cache helpers *)

\* A deadline that falls back to DefaultTTL when ttl is not positive.
deadline_fallback(ttl) ==
  IF ttl > 0 THEN clock + ttl
  ELSE IF opt.DefaultTTL > 0 THEN clock + opt.DefaultTTL ELSE 0

deadline(ttl) == IF ttl <= 0 THEN 0 ELSE clock + ttl

defaultDeadline == IF opt.DefaultTTL <= 0 THEN 0 ELSE deadline(opt.DefaultTTL)

\* Options.Cost: nil, or a function of the value.
CostFn(v) == v

\* if iv < 0 { iv = 0 }; if iv > math.MaxInt32 { iv = math.MaxInt32 }
clampInt32(iv) == IF Clamp0(iv) > MaxInt32 THEN MaxInt32 ELSE Clamp0(iv)

costOf(v) == IF opt.Cost = "nil" THEN 0 ELSE clampInt32(CostFn(v))

RECURSIVE SumLen(_, _)
SumLen(shs, i) ==
  IF i \notin DOMAIN shs THEN 0 ELSE shardLen(shs[i]) + SumLen(shs, i + 1)

cacheLen == SumLen(shards, 0)

----------------------------------------------------------------------------
(* Garbage collection: a node no pointer reaches is gone.                  *)

Roots(shs) ==
  UNION {Range(shs[i].m) \cup {shs[i].head, shs[i].tail} \cup shs[i].inIdx
         \cup Range(shs[i].inList) : i \in DOMAIN shs} \ {NIL}

Step(nd, R) == (R \cup {nd[n].prev : n \in R} \cup {nd[n].next : n \in R}) \ {NIL}

RECURSIVE Reach(_, _)
Reach(nd, R) == IF Step(nd, R) = R THEN R ELSE Reach(nd, Step(nd, R))

Keep(nd, live) == [n \in NodeIds |-> IF n \in live THEN nd[n] ELSE Blank]

Collect(nd, shs) == Keep(nd, Reach(nd, Roots(shs)))

----------------------------------------------------------------------------
(* Initial states: the cache as New returns it, for a range of Options,    *)
(* each with the workload that is run against it.                          *)

Base ==
  [Capacity |-> 2, Shards |-> 1, Policy |-> "lru", capIn |-> 1, capGhost |-> 1,
   DefaultTTL |-> 0, Cost |-> "nil", MaxCost |-> 0, OnEvict |-> TRUE,
   Loader |-> "nil"]

Load(keys, vals, ttls, ticks) ==
  [keys |-> keys, vals |-> vals, ttls |-> ttls, maxClock |-> ticks,
   callers |-> 0, close |-> TRUE]

Scenario(o, e) == [opt |-> o, env |-> e]

Scenarios ==
  { Scenario(Base, Load(Keys, Vals, {}, 0)),
    Scenario([Base EXCEPT !.Capacity = 1, !.Shards = 2], Load(Keys, {1}, {}, 0)),
    Scenario([Base EXCEPT !.Shards = 0, !.DefaultTTL = 1, !.OnEvict = FALSE],
             Load({1, 2, 3}, {1}, TTLs, MaxClock)),
    Scenario([Base EXCEPT !.Cost = "id", !.MaxCost = 1], Load({1, 2}, Vals, {}, 0)),
    Scenario([Base EXCEPT !.Capacity = 3, !.Cost = "id", !.MaxCost = 3],
             Load(Keys, Vals, {}, 0)),
    Scenario([Base EXCEPT !.Policy = "twoq"], Load(Keys, {1}, {}, 0)),
    Scenario([Base EXCEPT !.Policy = "twoq", !.capGhost = 2],
             Load({1, 2}, {1}, {1}, MaxClock)),
    Scenario([Base EXCEPT !.Policy = "twoq", !.Capacity = 3, !.capIn = 2, !.capGhost = 2],
             Load(Keys, {1}, {}, 0)),
    Scenario([Base EXCEPT !.Policy = "twoq", !.Capacity = 3, !.Shards = 2, !.capIn = 0,
                          !.Cost = "id", !.MaxCost = 5],
             Load({1, 2, 3}, Vals, {}, 0)),
    Scenario([Base EXCEPT !.Capacity = 4, !.Shards = 3], Load({1, 2, 3}, {1}, {}, 0)),
    Scenario([Base EXCEPT !.Cost = "id", !.MaxCost = 2], Load({1, 2, 3}, {1}, {1}, 2)) }

NoCall == [op |-> "New", k |-> NIL, v |-> NIL, ttl |-> 0, ok |-> FALSE, val |-> NIL,
           pre |-> "absent", tr |-> <<>>, ct |-> <<>>]

Callers == 1..MaxCallers

\* A goroutine that has not called GetOrLoad yet.  c is the call it leads or
\* waits for, (v, err) the result of fn, ret what GetOrLoad returned to it.
\* seen and late record what held when it called: the number of loads of its
\* key so far if no call for the key was in flight (else -1), and whether
\* another GetOrLoad had already returned.
Idle ==
  [pc |-> "idle", key |-> NIL, cancelled |-> FALSE, role |-> "none", c |-> NIL,
   v |-> NIL, err |-> "nil", wake |-> "none", ret |-> [val |-> NIL, err |-> "nil"],
   seen |-> -1, late |-> FALSE]

\* &call[V]{done: make(chan struct{})}
newCall == [done |-> FALSE, val |-> NIL, err |-> "nil"]

\* Group{}: no call in flight.  A call record has the address of its leader.
\* mu is the goroutine holding g.mu.
Group0 ==
  [mu |-> NIL, m |-> [k \in Keys |-> NIL], calls |-> [p \in Callers |-> newCall]]

\* The cache as New returns it under one of the scenarios scs.
Built(scs) ==
  /\ \E sc \in scs : opt = sc.opt /\ env = sc.env
  /\ callers = [p \in Callers |-> Idle]
  /\ sf = Group0
  /\ loads = [k \in Keys |-> 0]

Init ==
  /\ Built(Scenarios)
  /\ procs = 1
  /\ shards = New(opt, procs)
  /\ heap = [n \in NodeIds |-> Blank]
  /\ clock = 0
  /\ closed = FALSE
  /\ last = NoCall
  /\ metrics = <<>>
  /\ onEvict = <<>>

----------------------------------------------------------------------------
(* Public operations *)

World(i) ==
  [s |-> shards[i], nd |-> heap, ml |-> <<>>, cb |-> <<>>, tr |-> <<>>, ct |-> <<>>]

HasFree(k) == heap[alloc(heap, k)] = Blank

\* What held of k when the call started: absent, live, or resident with a
\* deadline that has passed.
PreOf(n) ==
  IF n = NIL THEN "absent"
  ELSE IF heap[n].exp # 0 /\ clock > heap[n].exp THEN "expired"
  ELSE "live"

Pre(k) == PreOf(shards[getShard(k)].m[k])

Call(op, k, v, ttl, r) ==
  [op |-> op, k |-> k, v |-> v, ttl |-> ttl, ok |-> r.ok, val |-> r.val, pre |-> Pre(k),
   tr |-> <<>>, ct |-> <<>>]

Refused == [ok |-> FALSE, val |-> NIL]

\* A shard method returns: the shard and the heap take its result.
Commit(i, r, l) ==
  /\ r.w.s.evicts <= MaxEvicts
  /\ shards' = [shards EXCEPT ![i] = r.w.s]
  /\ heap' = Collect(r.w.nd, [shards EXCEPT ![i] = r.w.s])
  /\ metrics' = r.w.ml
  /\ onEvict' = r.w.cb
  /\ last' = l
  /\ UNCHANGED <<opt, procs, clock, closed, env>>

\* A call on a closed cache returns before it reaches a shard.
Bail(l) ==
  /\ metrics' = <<>>
  /\ onEvict' = <<>>
  /\ last' = l
  /\ UNCHANGED <<opt, procs, shards, heap, clock, closed, env>>

\* The call returns: the shard and the heap take the method's result.
Return(i, r, op, k, v, ttl) ==
  /\ Commit(i, r, [Call(op, k, v, ttl, r) EXCEPT !.tr = r.w.tr, !.ct = r.w.ct])
  /\ UNCHANGED lvars

\* A call on a closed cache touches nothing.
Skip(l) == Bail(l) /\ UNCHANGED lvars

Add(k, v) ==
  /\ HasFree(k)
  /\ IF closed
     THEN Skip(Call("Add", k, v, 0, Refused))
     ELSE Return(getShard(k),
                 shardAdd(World(getShard(k)), k, v, defaultDeadline, costOf(v)),
                 "Add", k, v, 0)

Set(k, v) ==
  /\ HasFree(k)
  /\ IF closed
     THEN Skip(Call("Set", k, v, 0, Refused))
     ELSE Return(getShard(k),
                 shardSet(World(getShard(k)), k, v, defaultDeadline, costOf(v)),
                 "Set", k, v, 0)

SetWithTTL(k, v, ttl) ==
  /\ HasFree(k)
  /\ IF closed
     THEN Skip(Call("SetWithTTL", k, v, ttl, Refused))
     ELSE Return(getShard(k),
                 shardSet(World(getShard(k)), k, v, deadline(ttl), costOf(v)),
                 "SetWithTTL", k, v, ttl)

\* Get without the closed check.
Get_open(k) ==
  Return(getShard(k), shardGet(World(getShard(k)), k, clock), "Get", k, NIL, 0)

Get(k) ==
  IF closed
  THEN Skip(Call("Get", k, NIL, 0, Refused))
  ELSE Return(getShard(k), shardGet(World(getShard(k)), k, clock), "Get", k, NIL, 0)

Remove(k) ==
  IF closed
  THEN Skip(Call("Remove", k, NIL, 0, Refused))
  ELSE Return(getShard(k), shardRemove(World(getShard(k)), k), "Remove", k, NIL, 0)

\* Len(): the sum of the shards' len.
CacheLen ==
  Skip([NoCall EXCEPT !.op = "Len", !.val = cacheLen])

Close ==
  /\ env.close
  /\ closed' = TRUE
  /\ metrics' = <<>>
  /\ onEvict' = <<>>
  /\ last' = [NoCall EXCEPT !.op = "Close"]
  /\ UNCHANGED <<opt, procs, shards, heap, clock, env>>
  /\ UNCHANGED lvars

\* Time passes.
Tick ==
  /\ clock < env.maxClock
  /\ clock' = clock + 1
  /\ metrics' = <<>>
  /\ onEvict' = <<>>
  /\ last' = [NoCall EXCEPT !.op = "Tick"]
  /\ UNCHANGED <<opt, procs, shards, heap, closed, env>>
  /\ UNCHANGED lvars

Next ==
  \/ \E k \in env.keys, v \in env.vals : Add(k, v)
  \/ \E k \in env.keys, v \in env.vals : Set(k, v)
  \/ \E k \in env.keys, v \in env.vals, ttl \in env.ttls : SetWithTTL(k, v, ttl)
  \/ \E k \in env.keys : Get(k)
  \/ \E k \in env.keys : Remove(k)
  \/ CacheLen
  \/ Close
  \/ Tick

Spec == Init /\ [][Next]_vars

----------------------------------------------------------------------------
(* GetOrLoad and the singleflight group.  Each goroutine makes one call; a  *)
(* step is one shard method under its lock, one critical section of the    *)
(* group's mutex, one loader call, or one channel operation.               *)

cvars == <<opt, procs, shards, heap, clock, closed, env, last, metrics, onEvict>>

\* The workload e with n goroutines calling GetOrLoad, and Close called or not.
Flight(e, n, close) == [e EXCEPT !.callers = n, !.close = close]

LoadScenarios ==
  { Scenario([Base EXCEPT !.Loader = "flaky"],
             Flight(Load({1}, {1}, {}, 0), MaxCallers, FALSE)),
    Scenario([Base EXCEPT !.Loader = "ok", !.Cost = "id", !.MaxCost = 1],
             Flight(Load({1}, {1, 2}, {}, 0), 3, FALSE)),
    Scenario([Base EXCEPT !.Loader = "ok", !.DefaultTTL = 1],
             Flight(Load({1}, {1}, {}, 1), 3, FALSE)),
    Scenario([Base EXCEPT !.Loader = "ok", !.Capacity = 1],
             Flight(Load({1, 2}, {1}, {}, 0), 3, FALSE)),
    Scenario([Base EXCEPT !.Loader = "ok"], Flight(Load({1}, {1}, {}, 0), 3, TRUE)),
    Scenario(Base, Flight(Load({1}, {1}, {}, 0), 1, TRUE)) }

InitLoad ==
  /\ Built(LoadScenarios)
  /\ procs = 1
  /\ shards = New(opt, procs)
  /\ heap = [n \in NodeIds |-> Blank]
  /\ clock = 0
  /\ closed = FALSE
  /\ last = NoCall
  /\ metrics = <<>>
  /\ onEvict = <<>>

\* A shard method called from GetOrLoad returns.
Landed(i, r) ==
  \E j \in {i}, x \in {r} :
    /\ x.w.s.evicts <= MaxEvicts
    /\ shards' = [shards EXCEPT ![j] = x.w.s]
    /\ heap' = Collect(x.w.nd, [shards EXCEPT ![j] = x.w.s])
    /\ UNCHANGED <<opt, procs, clock, closed, env, last, metrics, onEvict>>

\* A c.Get(k) that reads the shard of a closed cache.
Lookup_open(k) == shardGet(World(getShard(k)), k, clock)

\* c.Get(k) as GetOrLoad calls it: its result ...
Lookup(k) == IF closed THEN Refused ELSE shardGet(World(getShard(k)), k, clock)

\* ... and its effect on the cache.
Looked(k) == IF closed THEN UNCHANGED cvars ELSE Landed(getShard(k), Lookup(k))

\* c.Set(k, v) as the leader calls it.
Stored(k, v) ==
  IF closed
  THEN UNCHANGED cvars
  ELSE \E j \in {getShard(k)} :
         Landed(j, shardSet(World(j), k, v, defaultDeadline, costOf(v)))

\* GetOrLoad returns (val, err); the goroutine's locals are gone.
Returned(me, val, err) ==
  [me EXCEPT !.pc = "done", !.ret = [val |-> val, err |-> err],
             !.c = NIL, !.v = NIL, !.err = "nil", !.wake = "none"]

\* GetOrLoad after its fast path: a hit returns, a miss without a Loader is
\* ErrNoLoader, any other miss goes on to sf.Do.
afterFastPath(me, r) ==
  IF r.ok THEN Returned(me, r.val, "nil")
  ELSE IF opt.Loader = "nil" THEN Returned(me, NIL, "noloader")
  ELSE [me EXCEPT !.pc = "do"]

\* The goroutine as it enters GetOrLoad(ctx, k).
entering(me, k) ==
  [me EXCEPT !.key = k, !.seen = IF sf.m[k] = NIL THEN loads[k] ELSE -1,
             !.late = (\E q \in Callers : callers[q].pc = "done")]

\* A call record nobody refers to any more is garbage.
freed(cs, m, rec) ==
  [id \in Callers |->
     IF id \in Range(m) \/ (\E q \in Callers : cs[q].c = id) THEN rec[id] ELSE newCall]

GetOrLoad(p, k) ==
  /\ callers[p].pc = "idle"
  /\ p <= env.callers
  /\ \A q \in Callers : q < p => callers[q].pc # "idle"
  /\ Looked(k)
  /\ callers' = [callers EXCEPT ![p] = afterFastPath(entering(callers[p], k), Lookup(k))]
  /\ UNCHANGED <<sf, loads>>

lead(me, id) == [me EXCEPT !.pc = "fn", !.role = "leader", !.c = id]

\* A caller that finds a call in flight and runs fn all the same.
follow_alone(me, id) == [me EXCEPT !.pc = "fn", !.role = "leader", !.c = id]

follow(me, id) == [me EXCEPT !.pc = "select", !.role = "follower", !.c = id]

\* Group.Do, first critical section: join the call in flight or become leader.
Do(p) ==
  /\ callers[p].pc = "do"
  /\ IF sf.m[callers[p].key] # NIL
     THEN /\ callers' = [callers EXCEPT ![p] = follow(callers[p], sf.m[callers[p].key])]
          /\ UNCHANGED sf
     ELSE /\ callers' = [callers EXCEPT ![p] = lead(callers[p], p)]
          /\ sf' = [sf EXCEPT !.m[callers[p].key] = p]
  /\ UNCHANGED <<cvars, loads>>

\* The goroutine p returns as rec: the group drops the records it held alone.
Left(p, rec) ==
  /\ callers' = [callers EXCEPT ![p] = rec]
  /\ sf' = [sf EXCEPT !.calls = freed([callers EXCEPT ![p] = rec], sf.m, sf.calls)]

\* What a follower of the call id returns once done is closed.
shared(me, id) == Returned(me, sf.calls[id].val, sf.calls[id].err)

\* select { case <-done: ...; case <-ctx.Done(): ... } of a follower: a ready
\* case is taken, either one when both are ready; with none ready it blocks.
Select(p) ==
  /\ callers[p].pc = "select"
  /\ \/ /\ sf.calls[callers[p].c].done
        /\ Left(p, shared(callers[p], callers[p].c))
     \/ /\ callers[p].cancelled
        /\ Left(p, Returned(callers[p], NIL, "ctx"))
     \/ /\ ~sf.calls[callers[p].c].done /\ ~callers[p].cancelled
        /\ callers' = [callers EXCEPT ![p].pc = "blocked"]
        /\ UNCHANGED sf
  /\ UNCHANGED <<cvars, loads>>

\* A blocked follower runs again with the case that woke it.
Resume(p) ==
  /\ callers[p].pc = "blocked"
  /\ callers[p].wake # "none"
  /\ Left(p, IF callers[p].wake = "done"
             THEN shared(callers[p], callers[p].c)
             ELSE Returned(callers[p], NIL, "ctx"))
  /\ UNCHANGED <<cvars, loads>>

\* The first channel to become ready decides the case of a blocked select.
woken(me, by) ==
  IF me.pc = "blocked" /\ me.wake = "none" THEN [me EXCEPT !.wake = by] ELSE me

\* A cancellation that reaches every follower blocked on the same call.
Cancel_flight(p) ==
  /\ callers[p].pc \in {"select", "blocked", "load"}
  /\ ~callers[p].cancelled
  /\ callers' = [q \in Callers |->
       IF q = p THEN [woken(callers[p], "ctx") EXCEPT !.cancelled = TRUE]
       ELSE IF callers[q].c = callers[p].c THEN woken(callers[q], "ctx")
       ELSE callers[q]]
  /\ UNCHANGED <<cvars, sf, loads>>

\* The goroutine's ctx is cancelled: while it is in select, or while its
\* loader runs (nothing else in GetOrLoad looks at ctx).
Cancel(p) ==
  /\ callers[p].pc \in {"select", "blocked", "load"}
  /\ ~callers[p].cancelled
  /\ callers' = [callers EXCEPT ![p] = [woken(callers[p], "ctx") EXCEPT !.cancelled = TRUE]]
  /\ UNCHANGED <<cvars, sf, loads>>

\* fn without the double-check: a leader always calls the loader.
checked_always(me, r) == [me EXCEPT !.pc = "load"]

\* fn starts with the double-check after joining the flight.
checked(me, r) ==
  IF r.ok THEN [me EXCEPT !.pc = "publish", !.v = r.val] ELSE [me EXCEPT !.pc = "load"]

Fn(p) ==
  /\ callers[p].pc = "fn"
  /\ Looked(callers[p].key)
  /\ callers' = [callers EXCEPT ![p] = checked(callers[p], Lookup(callers[p].key))]
  /\ UNCHANGED <<sf, loads>>

\* A loader result that is stored although the loader failed.
loaded_always(me, v, err) == [me EXCEPT !.pc = "set", !.v = v, !.err = err]

\* if err == nil { c.Set(k, v) }
loaded(me, v, err) ==
  [me EXCEPT !.pc = IF err = "nil" THEN "set" ELSE "publish", !.v = v, !.err = err]

\* v, err := c.opt.Loader(ctx, k)
CallLoader(p) ==
  /\ callers[p].pc = "load"
  /\ loads' = [loads EXCEPT ![callers[p].key] = @ + 1]
  /\ \/ \E v \in env.vals : callers' = [callers EXCEPT ![p] = loaded(callers[p], v, "nil")]
     \/ /\ opt.Loader = "flaky"
        /\ callers' = [callers EXCEPT ![p] = loaded(callers[p], NIL, "loader")]
  /\ UNCHANGED <<cvars, sf>>

Store(p) ==
  /\ callers[p].pc = "set"
  /\ HasFree(callers[p].key)
  /\ Stored(callers[p].key, callers[p].v)
  /\ callers' = [callers EXCEPT ![p].pc = "publish"]
  /\ UNCHANGED <<sf, loads>>

\* c.val, c.err = v, err
published(me) == [done |-> TRUE, val |-> me.v, err |-> me.err]

\* close(c.done) wakes the followers blocked on the call id.
closeDone(cs, p, id) ==
  [q \in Callers |->
     IF q = p THEN [cs[p] EXCEPT !.pc = "unmark"]
     ELSE IF cs[q].c = id THEN woken(cs[q], "done")
     ELSE cs[q]]

Publish(p) ==
  /\ callers[p].pc = "publish"
  /\ sf' = [sf EXCEPT !.calls[callers[p].c] = published(callers[p])]
  /\ callers' = closeDone(callers, p, callers[p].c)
  /\ UNCHANGED <<cvars, loads>>

\* The group once the leader has deleted its marker and returned as rec.
unmarked(g, cs, k) ==
  [mu |-> g.mu, m |-> [g.m EXCEPT ![k] = NIL],
   calls |-> freed(cs, [g.m EXCEPT ![k] = NIL], g.calls)]

\* delete(g.m, key); return v, err
Unmark(p) ==
  /\ callers[p].pc = "unmark"
  /\ callers' = [callers EXCEPT ![p] = Returned(callers[p], callers[p].v, callers[p].err)]
  /\ sf' = unmarked(sf, [callers EXCEPT ![p] = Returned(callers[p], callers[p].v, callers[p].err)],
                    callers[p].key)
  /\ UNCHANGED <<cvars, loads>>

NextLoad ==
  \/ \E p \in Callers, k \in env.keys : GetOrLoad(p, k)
  \/ \E p \in Callers : Do(p)
  \/ \E p \in Callers : Select(p)
  \/ \E p \in Callers : Resume(p)
  \/ \E p \in Callers : Cancel(p)
  \/ \E p \in Callers : Fn(p)
  \/ \E p \in Callers : CallLoader(p)
  \/ \E p \in Callers : Store(p)
  \/ \E p \in Callers : Publish(p)
  \/ \E p \in Callers : Unmark(p)
  \/ Close
  \/ Tick

SpecLoad == InitLoad /\ [][NextLoad]_vars

----------------------------------------------------------------------------
(* New, for a range of Options and of GOMAXPROCS: the cache is built by a    *)
(* step, from a state in which it has no shards yet.                        *)

\* The Options handed to New: Shards auto, a power of two or not; MaxCost off
\* or on.
NewOptions ==
  {[Base EXCEPT !.Capacity = c, !.Shards = sh, !.Cost = "id", !.MaxCost = mc] :
     c \in {1, 8}, sh \in {-1, 0, 1, 2, 3, 4, 5}, mc \in {0, 4, 7}}

InitNew ==
  /\ opt \in NewOptions
  /\ env = Load({1}, {1}, {}, 0)
  /\ procs \in 1..MaxProcs
  /\ shards = <<>>
  /\ heap = [n \in NodeIds |-> Blank]
  /\ clock = 0
  /\ closed = FALSE
  /\ last = NoCall
  /\ metrics = <<>>
  /\ onEvict = <<>>
  /\ callers = [p \in Callers |-> Idle]
  /\ sf = Group0
  /\ loads = [k \in Keys |-> 0]

\* New(opt) returns the cache.
Construct ==
  /\ shards = <<>>
  /\ shards' = New(opt, procs)
  /\ UNCHANGED <<opt, procs, heap, clock, closed, env, last, metrics, onEvict>>
  /\ UNCHANGED lvars

NextNew == Construct

SpecNew == InitNew /\ [][NextNew]_vars

----------------------------------------------------------------------------
(* The shard lock.  Goroutines call shard methods; a step is the call, the  *)
(* acquisition of s.mu, the method body, or the deferred release.  mu.w is  *)
(* the goroutine holding the exclusive lock, mu.r the set holding the       *)
(* shared lock.                                                             *)

\* The workload e with n goroutines calling the shard methods ops.
Racing(e, n, ops) ==
  [keys |-> e.keys, vals |-> e.vals, ttls |-> e.ttls, maxClock |-> e.maxClock,
   callers |-> n, close |-> FALSE, ops |-> ops]

LockScenarios ==
  { Scenario(Base, Racing(Load({1, 2, 3}, {1}, {}, 0), 2,
                          {"Add", "Set", "Get", "Remove", "Len"})),
    Scenario([Base EXCEPT !.Policy = "twoq", !.Shards = 2],
             Racing(Load({1, 2, 3}, {1}, {}, 0), 2, {"Set", "Get", "Len"})),
    Scenario(Base, Racing(Load({1}, {1}, {}, 0), MaxCallers, {"Get", "Len"})) }

\* A goroutine outside every shard method.
Outside == [pc |-> "idle", op |-> "none", i |-> NIL, key |-> NIL, v |-> NIL, ret |-> NIL]

InitLock ==
  /\ \E sc \in LockScenarios : opt = sc.opt /\ env = sc.env
  /\ callers = [p \in Callers |-> Outside]
  /\ sf = Group0
  /\ loads = [k \in Keys |-> 0]
  /\ procs = 1
  /\ shards = New(opt, procs)
  /\ heap = [n \in NodeIds |-> Blank]
  /\ clock = 0
  /\ closed = FALSE
  /\ last = NoCall
  /\ metrics = <<>>
  /\ onEvict = <<>>

\* Get that takes the shared lock.
Exclusive_sharedGet(op) == op \notin {"Len", "Get"}

\* The methods that take s.mu.Lock(); Len takes s.mu.RLock().
Exclusive(op) == op # "Len"

\* Goroutine p calls the method op of the shard of key k.
Enter(p, op, k, v) ==
  /\ callers[p].pc = "idle" /\ p <= env.callers /\ op \in env.ops
  /\ callers' = [callers EXCEPT ![p] =
                   [pc |-> "lock", op |-> op, i |-> getShard(k), key |-> k, v |-> v,
                    ret |-> NIL]]
  /\ UNCHANGED cvars /\ UNCHANGED <<sf, loads>>

\* The lock of shard i changes to mu, and p moves to pc.
Locked(p, i, mu, pc) ==
  /\ shards' = [shards EXCEPT ![i].mu = mu]
  /\ callers' = [callers EXCEPT ![p].pc = pc]
  /\ UNCHANGED <<opt, procs, heap, clock, closed, env, last, metrics, onEvict, sf, loads>>

\* s.mu.Lock(): waits until no goroutine holds the lock in either mode.
Lock(p) ==
  /\ callers[p].pc = "lock" /\ Exclusive(callers[p].op)
  /\ shards[callers[p].i].mu = [w |-> NIL, r |-> {}]
  /\ Locked(p, callers[p].i, [w |-> p, r |-> {}], "in")

\* s.mu.RLock(): waits until no goroutine holds the exclusive lock.
RLock(p) ==
  /\ callers[p].pc = "lock" /\ ~Exclusive(callers[p].op)
  /\ shards[callers[p].i].mu.w = NIL
  /\ Locked(p, callers[p].i,
            [w |-> NIL, r |-> shards[callers[p].i].mu.r \cup {p}], "in")

\* The body of the method me is in, on the world w.
Body(me, w) ==
  CASE me.op = "Add"    -> shardAdd(w, me.key, me.v, defaultDeadline, costOf(me.v))
    [] me.op = "Set"    -> shardSet(w, me.key, me.v, defaultDeadline, costOf(me.v))
    [] me.op = "Get"    -> shardGet(w, me.key, clock)
    [] me.op = "Remove" -> shardRemove(w, me.key)
    [] me.op = "Len"    -> Result(w, TRUE, shardLen(w.s))

\* Goroutine p runs the body of its method, policy callbacks and hooks
\* included, up to the return statement.
Method(p) ==
  /\ callers[p].pc = "in"
  /\ Landed(callers[p].i, Body(callers[p], World(callers[p].i)))
  /\ callers' = [callers EXCEPT ![p].pc = "out",
                                ![p].ret = Body(callers[p], World(callers[p].i)).val]
  /\ UNCHANGED <<sf, loads>>

\* A writer that returns without releasing s.mu.
Unlock_leak(p) ==
  /\ callers[p].pc = "out" /\ Exclusive(callers[p].op)
  /\ Locked(p, callers[p].i, shards[callers[p].i].mu, "idle")

\* defer s.mu.Unlock()
Unlock(p) ==
  /\ callers[p].pc = "out" /\ Exclusive(callers[p].op)
  /\ Locked(p, callers[p].i, [w |-> NIL, r |-> {}], "idle")

\* defer s.mu.RUnlock()
RUnlock(p) ==
  /\ callers[p].pc = "out" /\ ~Exclusive(callers[p].op)
  /\ Locked(p, callers[p].i,
            [w |-> NIL, r |-> shards[callers[p].i].mu.r \ {p}], "idle")

NextLock ==
  \/ \E p \in Callers, op \in {"Add", "Set", "Get", "Remove", "Len"},
        k \in env.keys, v \in env.vals : Enter(p, op, k, v)
  \/ \E p \in Callers : Lock(p)
  \/ \E p \in Callers : RLock(p)
  \/ \E p \in Callers : Method(p)
  \/ \E p \in Callers : Unlock(p)
  \/ \E p \in Callers : RUnlock(p)

SpecLock == InitLock /\ [][NextLock]_vars

----------------------------------------------------------------------------
(* Progress.  Goroutines make one call each: the first env.callers call    *)
(* GetOrLoad, the next env.workers call a shard method.  A shard method    *)
(* called by a worker is the acquisition of s.mu, the body and the release; *)
(* a shard method called from GetOrLoad is one step that needs s.mu free.  *)
(* g.mu of the singleflight group is taken and released in steps of their  *)
(* own around the two critical sections of Do.                              *)

\* The workload e with n goroutines in GetOrLoad and w workers calling ops.
Mixed(e, n, w, ops) ==
  [keys |-> e.keys, vals |-> e.vals, ttls |-> e.ttls, maxClock |-> e.maxClock,
   callers |-> n, close |-> FALSE, ops |-> ops, workers |-> w]

LiveScenarios ==
  { Scenario([Base EXCEPT !.Loader = "flaky"],
             Mixed(Load({1}, {1}, {}, 0), 2, 1, {"Set", "Remove", "Len"})),
    Scenario([Base EXCEPT !.Loader = "ok", !.Capacity = 1],
             Mixed(Load({1, 2}, {1}, {}, 0), 1, 2, {"Add", "Get", "Len"})),
    Scenario([Base EXCEPT !.Loader = "ok"],
             Mixed(Load({1}, {1}, {}, 0), 3, 0, {})) }

\* A goroutine that has made no call yet; n counts the calls it has made.
Resting ==
  [pc |-> "idle", key |-> NIL, cancelled |-> FALSE, role |-> "none", c |-> NIL,
   v |-> NIL, err |-> "nil", wake |-> "none", ret |-> [val |-> NIL, err |-> "nil"],
   seen |-> -1, late |-> FALSE, op |-> "none", i |-> NIL, n |-> 0]

InitLive ==
  /\ \E sc \in LiveScenarios : opt = sc.opt /\ env = sc.env
  /\ callers = [p \in Callers |-> Resting]
  /\ sf = Group0
  /\ loads = [k \in Keys |-> 0]
  /\ procs = 1
  /\ shards = New(opt, procs)
  /\ heap = [n \in NodeIds |-> Blank]
  /\ clock = 0
  /\ closed = FALSE
  /\ last = NoCall
  /\ metrics = <<>>
  /\ onEvict = <<>>

\* Nobody holds the lock of the shard of key k.
ShardFree(k) == shards[getShard(k)].mu = [w |-> NIL, r |-> {}]

\* Worker p calls the method op of the shard of key k.
Begin(p, op, k, v) ==
  /\ callers[p].pc = "idle" /\ callers[p].n = 0
  /\ p > env.callers /\ p <= env.callers + env.workers /\ op \in env.ops
  /\ callers' = [callers EXCEPT ![p].pc = "lock", ![p].op = op, ![p].i = getShard(k),
                                ![p].key = k, ![p].v = v, ![p].n = 1]
  /\ UNCHANGED cvars /\ UNCHANGED <<sf, loads>>

\* GetOrLoad up to sf.Do: the fast-path Get takes and releases s.mu.
GetOrLoadLive(p, k) == callers[p].pc = "idle" /\ ShardFree(k) /\ GetOrLoad(p, k)

\* g.mu.Lock(), at the start of Do and before delete(g.m, key).
SfLock(p) ==
  /\ callers[p].pc \in {"do", "unmark"} /\ sf.mu = NIL
  /\ sf' = [sf EXCEPT !.mu = p]
  /\ UNCHANGED cvars /\ UNCHANGED <<callers, loads>>

\* The first critical section of Do, under g.mu.
DoLive(p) == sf.mu = p /\ Do(p)

\* g.mu.Unlock(): after the first critical section, and after the delete.
SfUnlock(p) ==
  /\ sf.mu = p /\ callers[p].pc \notin {"do", "unmark"}
  /\ sf' = [sf EXCEPT !.mu = NIL]
  /\ UNCHANGED cvars /\ UNCHANGED <<callers, loads>>

\* A follower has released g.mu before it waits in select.
SelectLive(p) == sf.mu # p /\ Select(p)

\* fn runs outside g.mu; its double-check Get takes and releases s.mu.
FnLive(p) ==
  callers[p].pc = "fn" /\ sf.mu # p /\ ShardFree(callers[p].key) /\ Fn(p)

\* The leader's Set takes and releases s.mu.
StoreLive(p) == callers[p].pc = "set" /\ ShardFree(callers[p].key) /\ Store(p)

\* delete(g.m, key), under g.mu.
UnmarkLive(p) == sf.mu = p /\ Unmark(p)

NextLive ==
  \/ \E p \in Callers, op \in {"Add", "Set", "Get", "Remove", "Len"},
        k \in env.keys, v \in env.vals : Begin(p, op, k, v)
  \/ \E p \in Callers : Lock(p)
  \/ \E p \in Callers : RLock(p)
  \/ \E p \in Callers : Method(p)
  \/ \E p \in Callers : Unlock(p)
  \/ \E p \in Callers : RUnlock(p)
  \/ \E p \in Callers, k \in env.keys : GetOrLoadLive(p, k)
  \/ \E p \in Callers : SfLock(p)
  \/ \E p \in Callers : DoLive(p)
  \/ \E p \in Callers : SfUnlock(p)
  \/ \E p \in Callers : SelectLive(p)
  \/ \E p \in Callers : Resume(p)
  \/ \E p \in Callers : Cancel(p)
  \/ \E p \in Callers : FnLive(p)
  \/ \E p \in Callers : CallLoader(p)
  \/ \E p \in Callers : StoreLive(p)
  \/ \E p \in Callers : Publish(p)
  \/ \E p \in Callers : UnmarkLive(p)

SpecLive == InitLive /\ [][NextLive]_vars

\* The steps of goroutine p, within the call it is in, that run no shard
\* method: lock operations, the critical sections of Do, select, the loader.
Light(p) ==
  \/ Lock(p) \/ RLock(p) \/ Unlock(p) \/ RUnlock(p)
  \/ SfLock(p) \/ DoLive(p) \/ SfUnlock(p) \/ SelectLive(p) \/ Resume(p)
  \/ CallLoader(p) \/ Publish(p) \/ UnmarkLive(p)

\* The steps of goroutine p that run the body of a shard method.
Heavy(p) == Method(p) \/ FnLive(p) \/ StoreLive(p)

\* The method the goroutine me is about to run stays within the model's
\* bounds (a free node address, at most MaxEvicts evictions).
Fits(me) ==
  CASE me.pc = "in"  -> Body(me, World(me.i)).w.s.evicts <= MaxEvicts
    [] me.pc = "fn"  -> closed \/ Lookup(me.key).w.s.evicts <= MaxEvicts
    [] me.pc = "set" ->
         /\ HasFree(me.key)
         /\ closed \/ shardSet(World(getShard(me.key)), me.key, me.v, defaultDeadline,
                               costOf(me.v)).w.s.evicts <= MaxEvicts
    [] OTHER -> FALSE

\* Heavy(p) is enabled: p is inside a worker's method, or at a shard method
\* of GetOrLoad with g.mu released and the shard lock free.
HeavyReady(p) ==
  /\ \/ callers[p].pc = "in"
     \/ /\ callers[p].pc \in {"fn", "set"} /\ sf.mu # p
        /\ ShardFree(callers[p].key)
  /\ Fits(callers[p])

\* Fair scheduling: a goroutine that can take the next step of the call it
\* is in does so; the loader and the callbacks terminate.  Whether and when
\* a goroutine starts a call, and whether its ctx is cancelled, is left open.
\* For the steps that run a shard method, weak fairness is written out with
\* the enabling condition HeavyReady(p) in place of ENABLED <<Heavy(p)>>_vars.
FairLive ==
  /\ SpecLive
  /\ \A p \in Callers : WF_vars(Light(p))
  /\ \A p \in Callers : []<>(~HeavyReady(p)) \/ []<><<Heavy(p)>>_vars

----------------------------------------------------------------------------
(* cache.Len: a loop over c.shards that adds up s.Len(), each taken under   *)
(* that shard's read lock.  Goroutine 1 calls Len again and again while the *)
(* other goroutines call Add, Set and Remove.                               *)

LenScenarios ==
  { Scenario([Base EXCEPT !.Shards = 2],
             Racing(Load({1, 2}, {1}, {}, 0), MaxCallers, {"Add", "Remove"})),
    Scenario([Base EXCEPT !.Shards = 2, !.Capacity = 2],
             Racing(Load({1, 2, 3}, {1}, {}, 0), 2, {"Set", "Remove"})) }

InitLen ==
  /\ \E sc \in LenScenarios : opt = sc.opt /\ env = sc.env
  /\ callers = [p \in Callers |-> Outside]
  /\ sf = Group0
  /\ loads = [k \in Keys |-> 0]
  /\ procs = 1
  /\ shards = New(opt, procs)
  /\ heap = [n \in NodeIds |-> Blank]
  /\ clock = 0
  /\ closed = FALSE
  /\ last = NoCall
  /\ metrics = <<>>
  /\ onEvict = <<>>

\* The length of every shard of shs.
Lens(shs) == [i \in DOMAIN shs |-> shardLen(shs[i])]

\* Goroutine p calls c.Len(): total := 0, and the loop is at the first shard.
\* view collects the lengths the shards have while the call runs.
LenCall(p) ==
  /\ callers[p].pc \in {"idle", "done"} /\ p <= env.callers
  /\ callers' = [callers EXCEPT ![p] =
                   [pc |-> "lock", op |-> "Len", i |-> 0, key |-> NIL, v |-> NIL,
                    ret |-> NIL, total |-> 0, view |-> {Lens(shards)}]]
  /\ UNCHANGED cvars /\ UNCHANGED <<sf, loads>>

\* s.Len() reads s.len under the read lock; total += s.Len().
LenRead(p) ==
  /\ callers[p].pc = "in" /\ callers[p].op = "Len"
  /\ callers' = [callers EXCEPT ![p].pc = "out",
                                ![p].total = @ + shardLen(shards[callers[p].i])]
  /\ UNCHANGED cvars /\ UNCHANGED <<sf, loads>>

\* A loop that returns after its first shard.
LenNext_first(p) ==
  /\ callers[p].pc = "out" /\ callers[p].op = "Len"
  /\ shards' = [shards EXCEPT ![callers[p].i].mu.r = @ \ {p}]
  /\ callers' = [callers EXCEPT ![p].pc = "done", ![p].ret = callers[p].total]
  /\ UNCHANGED <<opt, procs, heap, clock, closed, env, last, metrics, onEvict, sf, loads>>

\* The deferred s.mu.RUnlock(); then the next shard, or return total.
LenNext(p) ==
  /\ callers[p].pc = "out" /\ callers[p].op = "Len"
  /\ shards' = [shards EXCEPT ![callers[p].i].mu.r = @ \ {p}]
  /\ callers' = IF callers[p].i + 1 \in DOMAIN shards
                THEN [callers EXCEPT ![p].pc = "lock", ![p].i = @ + 1]
                ELSE [callers EXCEPT ![p].pc = "done", ![p].ret = callers[p].total]
  /\ UNCHANGED <<opt, procs, heap, clock, closed, env, last, metrics, onEvict, sf, loads>>

\* Goroutine p runs the body of Add, Set or Remove under the exclusive lock.
Write(p) ==
  /\ callers[p].pc = "in" /\ callers[p].op # "Len"
  /\ Landed(callers[p].i, Body(callers[p], World(callers[p].i)))
  /\ callers' =
       [q \in Callers |->
          IF q = p
          THEN [callers[p] EXCEPT !.pc = "out",
                                  !.ret = Body(callers[p], World(callers[p].i)).val]
          ELSE IF callers[q].op = "Len" /\ callers[q].pc # "done"
          THEN [callers[q] EXCEPT !.view = @ \cup {Lens(shards')}]
          ELSE callers[q]]
  /\ UNCHANGED <<sf, loads>>

NextLen ==
  \/ \E p \in Callers \ {1}, op \in {"Add", "Set", "Remove"},
        k \in env.keys, v \in env.vals : Enter(p, op, k, v)
  \/ \E p \in Callers : Lock(p)
  \/ \E p \in Callers : Write(p)
  \/ \E p \in Callers : Unlock(p)
  \/ \E p \in {1} : LenCall(p)
  \/ \E p \in Callers : RLock(p)
  \/ \E p \in Callers : LenRead(p)
  \/ \E p \in Callers : LenNext(p)

SpecLen == InitLen /\ [][NextLen]_vars

----------------------------------------------------------------------------
(* Cost arithmetic at full width.  A number is written as five digits base  *)
(* 2^16, lowest first; an int64 is its two's complement bit pattern, the    *)
(* four low digits.  The shard is followed through its counters len and     *)
(* cost only, so that runs of 2^32 insertions can be taken in one step.     *)

Digit == 2^16

Wide(d1, d2, d3, d4, d5) == <<d1, d2, d3, d4, d5>>

Zero64     == Wide(0, 0, 0, 0, 0)
One64      == Wide(1, 0, 0, 0, 0)
MaxInt32W  == Wide(65535, 32767, 0, 0, 0)          \* 2^31 - 1
MaxInt64W  == Wide(65535, 65535, 65535, 32767, 0)  \* 2^63 - 1
Pow32      == Wide(0, 0, 1, 0, 0)                  \* 2^32

RECURSIVE AddDigits(_, _, _, _)
AddDigits(a, b, i, c) ==
  IF i > Len(a) THEN <<>>
  ELSE <<(a[i] + b[i] + c) % Digit>> \o AddDigits(a, b, i + 1, (a[i] + b[i] + c) \div Digit)

WideAdd(a, b) == AddDigits(a, b, 1, 0)

RECURSIVE LeFrom(_, _, _)
LeFrom(a, b, i) ==
  IF i = 0 THEN TRUE ELSE IF a[i] # b[i] THEN a[i] < b[i] ELSE LeFrom(a, b, i - 1)

WideLe(a, b) == LeFrom(a, b, Len(a))

\* n * c for n one of 1 and 2^32, c below 2^32.
Times(n, c) == IF n = One64 THEN c ELSE Wide(0, 0, c[1], c[2], c[3])

\* The int64 that holds x: x modulo 2^64.
Wrap64(x) == Wide(x[1], x[2], x[3], x[4], 0)

\* The int64 with bit pattern x is negative.
Negative64(x) == x[4] >= 32768

\* What Options.Cost returns for a value: a Go int, sign and magnitude.
GoInt(neg, mag) == [neg |-> neg, mag |-> mag]

RawCosts ==
  { GoInt(TRUE, Wide(0, 0, 0, 32768, 0)), GoInt(TRUE, One64), GoInt(FALSE, Zero64),
    GoInt(FALSE, One64), GoInt(FALSE, Wide(65534, 32767, 0, 0, 0)), GoInt(FALSE, MaxInt32W),
    GoInt(FALSE, Wide(0, 32768, 0, 0, 0)), GoInt(FALSE, MaxInt64W) }

\* A costOf without the upper clamp: int32(iv) keeps the low 32 bits.
costOf64_truncate(iv) ==
  IF opt.Cost = "nil" THEN Zero64
  ELSE IF iv.neg THEN Zero64
  ELSE Wide(iv.mag[1], iv.mag[2], 0, 0, 0)

\* costOf, on the int that Cost(v) returned.
costOf64(iv) ==
  IF opt.Cost = "nil" THEN Zero64
  ELSE IF iv.neg THEN Zero64
  ELSE IF ~WideLe(iv.mag, MaxInt32W) THEN MaxInt32W
  ELSE iv.mag

\* s.len++ and s.cost += int64(n.cost), n times for nodes of cost c.
counted64(s, n, c) ==
  [s EXCEPT !.len = WideAdd(s.len, n), !.cost = Wrap64(WideAdd(s.cost, Times(n, c)))]

MaxSingles == 3     \* insertions taken one at a time

\* Capacities of the one shard: small, 2^32 + 2, 2^32 + 3.
CostCaps == {Wide(3, 0, 0, 0, 0), Wide(2, 0, 1, 0, 0), Wide(3, 0, 1, 0, 0)}

InitCost ==
  /\ \E c \in CostCaps, f \in {"nil", "id"} : opt = [Base EXCEPT !.Capacity = c, !.Cost = f]
  /\ env = Load({1}, RawCosts, {}, 0)
  /\ procs = 1
  /\ shards = [i \in {0} |-> [len |-> Zero64, cost |-> Zero64, cap |-> opt.Capacity]]
  /\ heap = [n \in NodeIds |-> Blank]
  /\ clock = 0
  /\ closed = FALSE
  /\ last = [op |-> "New", n |-> Zero64, iv |-> GoInt(FALSE, Zero64), cost |-> Zero64,
             sum |-> Zero64, singles |-> 0]
  /\ metrics = <<>>
  /\ onEvict = <<>>
  /\ callers = [p \in Callers |-> Idle]
  /\ sf = Group0
  /\ loads = [k \in Keys |-> 0]

\* n Add calls for absent keys, each with a value for which Cost returns iv,
\* while the shard stays within cap.  last.sum is the sum of the costs of the
\* resident entries as a number, last.cost the cost stored in the new nodes.
Inserted(n, iv) ==
  /\ WideLe(WideAdd(shards[0].len, n), shards[0].cap)
  /\ n = One64 => last.singles < MaxSingles
  /\ shards' = [shards EXCEPT ![0] = counted64(shards[0], n, costOf64(iv))]
  /\ last' = [op |-> "Add", n |-> n, iv |-> iv, cost |-> costOf64(iv),
              sum |-> WideAdd(last.sum, Times(n, costOf64(iv))),
              singles |-> IF n = One64 THEN last.singles + 1 ELSE last.singles]
  /\ UNCHANGED <<opt, procs, heap, clock, closed, env, metrics, onEvict>>
  /\ UNCHANGED lvars

NextCost ==
  \/ \E iv \in env.vals : Inserted(One64, iv)
  \/ \E iv \in env.vals : Inserted(Pow32, iv)

SpecCost == InitCost /\ [][NextCost]_vars

----------------------------------------------------------------------------
(* Observations used by the properties *)

RECURSIVE Chain(_, _, _)
Chain(nd, n, fuel) ==
  IF n = NIL \/ fuel = 0 THEN <<>> ELSE <<n>> \o Chain(nd, nd[n].next, fuel - 1)

\* The nodes reachable from head by following next, MRU first.
ListOf(s, nd) == Chain(nd, s.head, Cardinality(NodeIds) + 1)

Resident(s) == {k \in Keys : s.m[k] # NIL}

RECURSIVE SumCost(_, _, _)
SumCost(s, nd, ks) ==
  IF ks = {} THEN 0
  ELSE LET k == CHOOSE x \in ks : TRUE
       IN nd[s.m[k]].cost + SumCost(s, nd, ks \ {k})

IsEvict(e) == e.e = "Evict"

Evicted(ml) == SelectSeq(ml, IsEvict)

HasReason(ml, reason) == \E j \in 1..Len(ml) : ml[j].e = "Evict" /\ ml[j].a = reason

Home(k) == shards[getShard(k)]

\* The keys of the list, MRU first, without key k.
RECURSIVE KeysExcept(_, _, _)
KeysExcept(q, nd, k) ==
  IF q = <<>> THEN <<>>
  ELSE IF nd[Head(q)].key = k THEN KeysExcept(Tail(q), nd, k)
  ELSE <<nd[Head(q)].key>> \o KeysExcept(Tail(q), nd, k)

----------------------------------------------------------------------------
(* Properties *)

\* C1: in every shard the nodes reachable from head by next are exactly the
\* nodes of the key->node map, each once and each under its own key; len is
\* their number; head = nil iff tail = nil iff len = 0.
ShardListMatchesMap ==
  \A i \in DOMAIN shards :
    LET s == shards[i]
        q == ListOf(s, heap)
    IN /\ Range(q) = {s.m[k] : k \in Resident(s)}
       /\ Len(q) = Cardinality(Resident(s))
       /\ \A k \in Resident(s) : heap[s.m[k]].key = k
       /\ s.len = Len(q)
       /\ (s.head = NIL) <=> (s.tail = NIL)
       /\ (s.head = NIL) <=> (s.len = 0)

\* C1 witness: a 2Q shard holding two entries after a removal at the head.
ListAfterRemovals ==
  /\ opt.Policy = "twoq"
  /\ last.op = "Remove" /\ last.ok
  /\ Home(last.k).len >= 2
  /\ Home(last.k).evicts >= 1

\* C2: a shard's cost is the sum of its resident nodes' costs, never negative.
ShardCostIsSum ==
  \A i \in DOMAIN shards :
    /\ shards[i].cost = SumCost(shards[i], heap, Resident(shards[i]))
    /\ shards[i].cost >= 0

\* C2 witness: an in-place Set that changed the cost of a resident entry,
\* in a shard that has also evicted.
CostAfterUpdate ==
  /\ opt.Cost = "id"
  /\ last.op = "Set" /\ last.pre = "live"
  /\ Home(last.k).m[last.k] # NIL
  /\ Home(last.k).cost >= 2
  /\ Home(last.k).evicts >= 1

\* C3: every shard holds at most cap entries, and cap >= 1.
ShardLenWithinCap ==
  \A i \in DOMAIN shards : shards[i].cap >= 1 /\ shards[i].len <= shards[i].cap

\* C3 witness: a full shard whose last insertion evicted for the count limit.
FullAfterEviction ==
  /\ last.op \in {"Add", "Set"} /\ last.pre = "absent" /\ ~closed
  /\ Home(last.k).len = Home(last.k).cap
  /\ HasReason(metrics, EvictPolicy)

\* C4: with maxCost > 0 a shard's cost is at most maxCost.
ShardCostWithinMax ==
  \A i \in DOMAIN shards : shards[i].maxCost > 0 => shards[i].cost <= shards[i].maxCost

\* C4 witness: a call that evicted for the cost limit.
CostEviction ==
  /\ Home(last.k).maxCost > 0
  /\ last.op \in {"Add", "Set"} /\ ~closed
  /\ HasReason(metrics, EvictCapacity)

\* C5: Len() never exceeds Options.Capacity.
LenWithinCapacity == cacheLen <= opt.Capacity

\* C6: Add on an open cache returns true iff the key is not resident in its
\* shard when the call starts; when it returns false, the shard and every
\* node (value, deadline, cost, list order) are as they were.
AddOnlyIfAbsent ==
  [][(last'.op = "Add" /\ ~closed) =>
       /\ last'.ok <=> (Home(last'.k).m[last'.k] = NIL)
       /\ ~last'.ok => (shards' = shards /\ heap' = heap)]_vars

\* C6 witness: a refused Add whose value differs from the stored one.
AddRefused ==
  /\ last.op = "Add" /\ ~last.ok /\ ~closed
  /\ Home(last.k).m[last.k] # NIL
  /\ heap[Home(last.k).m[last.k]].val # last.v
  /\ Home(last.k).len >= 2

\* What Get(k) returns when it is the next call, with the clock where it is.
GetNow(k) == shardGet(World(getShard(k)), k, clock)

\* What Add(k, v) returns when it is the next call.
AddNow(k, v) == shardAdd(World(getShard(k)), k, v, defaultDeadline, costOf(v))

\* C7 as stated: on an open cache, Get(k) right after Set(k, v) returns
\* (v, true), under any Options.
SetThenGet ==
  (last.op = "Set" /\ ~closed) =>
     (GetNow(last.k).ok /\ GetNow(last.k).val = last.v)

\* C7 amended: on an open cache, Get(k) right after Set(k, v) returns
\* (v, true) provided cost limiting is off or the cost of v fits the shard's
\* maxCost.
SetThenGetWithinCost ==
  (/\ last.op = "Set" /\ ~closed
   /\ (Home(last.k).maxCost = 0 \/ costOf(last.v) <= Home(last.k).maxCost)) =>
     (GetNow(last.k).ok /\ GetNow(last.k).val = last.v)

\* C7 witness: a Set under a cost limit that evicted another entry and kept
\* the one it wrote.
SetKeptUnderCost ==
  /\ last.op = "Set" /\ ~closed
  /\ Home(last.k).maxCost > 0
  /\ costOf(last.v) <= Home(last.k).maxCost
  /\ HasReason(metrics, EvictCapacity)

\* C8: Remove on an open cache returns true iff the key is resident; after it
\* Get(k) is a miss and Add(k, v) returns true; every other key keeps its
\* presence, its value and its place in the recency order.
RemoveContract ==
  /\ [](( last.op = "Remove" /\ ~closed) =>
          /\ ~GetNow(last.k).ok
          /\ \A v \in env.vals : HasFree(last.k) /\ AddNow(last.k, v).ok)
  /\ [][(last'.op = "Remove" /\ ~closed) =>
          /\ last'.ok <=> (Home(last'.k).m[last'.k] # NIL)
          /\ \A i \in DOMAIN shards :
               /\ KeysExcept(ListOf(shards'[i], heap'), heap', last'.k)
                    = KeysExcept(ListOf(shards[i], heap), heap, last'.k)
               /\ \A k \in Keys \ {last'.k} :
                    /\ (shards'[i].m[k] = NIL) <=> (shards[i].m[k] = NIL)
                    /\ shards[i].m[k] # NIL =>
                         heap'[shards'[i].m[k]].val = heap[shards[i].m[k]].val]_vars

\* C8 witness: a Remove that took an entry out from between two others.
RemovedFromMiddle ==
  /\ last.op = "Remove" /\ last.ok /\ ~closed
  /\ Home(last.k).len >= 2

\* C9: a Remove call leaves the eviction counter alone, emits no
\* Metrics.Evict and calls no OnEvict.
RemoveIsNoEviction ==
  [][last'.op = "Remove" =>
       /\ \A i \in DOMAIN shards : shards'[i].evicts = shards[i].evicts
       /\ Evicted(metrics') = <<>>
       /\ onEvict' = <<>>]_vars

\* C9 witness: a Remove of an entry whose deadline had passed, with OnEvict
\* configured.
RemovedExpired ==
  /\ last.op = "Remove" /\ last.ok /\ last.pre = "expired"
  /\ opt.OnEvict

\* C10: SetWithTTL with ttl > 0 stores the deadline now + ttl; the first Get
\* after the clock has passed the deadline is a miss, removes the entry and
\* produces exactly one Evict, with reason TTL; a Get of an absent key is a
\* miss that changes nothing and produces no Evict.
TTLExpiresOnGet ==
  /\ [][(last'.op = "SetWithTTL" /\ last'.ttl > 0 /\ ~closed
         /\ shards'[getShard(last'.k)].m[last'.k] # NIL) =>
          heap'[shards'[getShard(last'.k)].m[last'.k]].exp = clock + last'.ttl]_vars
  /\ [][(/\ last'.op = "Get" /\ ~closed
         /\ Home(last'.k).m[last'.k] # NIL
         /\ heap[Home(last'.k).m[last'.k]].exp # 0
         /\ clock > heap[Home(last'.k).m[last'.k]].exp) =>
          /\ ~last'.ok
          /\ shards'[getShard(last'.k)].m[last'.k] = NIL
          /\ shards'[getShard(last'.k)].len = Home(last'.k).len - 1
          /\ Evicted(metrics') = <<Ev("Evict", EvictTTL, 0)>>
          /\ shards'[getShard(last'.k)].evicts = Home(last'.k).evicts + 1
          /\ opt.OnEvict => (Len(onEvict') = 1 /\ onEvict'[1].k = last'.k
                             /\ onEvict'[1].reason = EvictTTL)]_vars
  /\ [][(last'.op = "Get" /\ ~closed /\ Home(last'.k).m[last'.k] = NIL) =>
          /\ ~last'.ok
          /\ Evicted(metrics') = <<>>
          /\ onEvict' = <<>>
          /\ shards' = shards]_vars

\* C10 witness: a Get that found the entry expired.
GotExpired ==
  /\ last.op = "Get" /\ last.pre = "expired" /\ ~last.ok /\ ~closed
  /\ HasReason(metrics, EvictTTL)

----------------------------------------------------------------------------
(* Strict LRU *)

\* The keys of a shard's list, MRU first.
KeysOf(s, nd) == KeysExcept(ListOf(s, nd), nd, NIL)

Without(q, k) == SelectSeq(q, LAMBDA x : x # k)

\* The reference LRU: k becomes the most recently used key ...
refTouch(q, k) == <<k>> \o Without(q, k)

\* ... and an overflow drops the least recently used keys.
refTrim(q, c) == IF Len(q) > c THEN SubSeq(q, 1, c) ELSE q

\* One call on the reference LRU of capacity c holding the keys q.
refLRU(q, c, call) ==
  CASE call.op = "Add" /\ call.k \notin Range(q) -> refTrim(refTouch(q, call.k), c)
    [] call.op \in {"Set", "SetWithTTL"}            -> refTrim(refTouch(q, call.k), c)
    [] call.op = "Get" /\ call.k \in Range(q)     -> refTouch(q, call.k)
    [] call.op = "Remove"                          -> Without(q, call.k)
    [] OTHER                                       -> q

\* What the reference LRU answers: Add and Remove report whether they acted,
\* Get whether it hit.
refOk(q, call) ==
  CASE call.op = "Add"              -> call.k \notin Range(q)
    [] call.op \in {"Get", "Remove"} -> call.k \in Range(q)
    [] OTHER                        -> call.ok

\* A single LRU shard with no deadlines and no cost limit.
StrictLRUSetting ==
  /\ opt.Policy = "lru" /\ DOMAIN shards = {0} /\ ~closed
  /\ shards[0].maxCost = 0 /\ opt.DefaultTTL = 0 /\ env.ttls = {}

\* C11: on a single LRU shard of capacity C with no TTL and no cost limit,
\* every call leaves the resident keys in the order of the reference LRU
\* (successful Add, Set and Get hit make the key most recently used, an
\* overflow evicts the least recently used key), and answers as it does.
StrictLRU ==
  [][StrictLRUSetting =>
       /\ KeysOf(shards'[0], heap') = refLRU(KeysOf(shards[0], heap), shards[0].cap, last')
       /\ last'.ok = refOk(KeysOf(shards[0], heap), last')]_vars

\* C11 witness: key 3 enters a full shard and the least recently used key is
\* evicted, leaving key 1 behind it.
LRUOverflow ==
  /\ StrictLRUSetting
  /\ last.op \in {"Add", "Set"} /\ last.pre = "absent" /\ last.k = 3
  /\ HasReason(metrics, EvictPolicy)
  /\ KeysOf(shards[0], heap) = <<3, 1>>

----------------------------------------------------------------------------
(* GetOrLoad *)

Done(p) == callers[p].pc = "done"

\* The goroutines whose GetOrLoad(k) has returned otherwise than by a
\* cancelled wait.
Served(k) ==
  {p \in Callers : Done(p) /\ callers[p].key = k /\ callers[p].ret.err # "ctx"}

\* No loader call has failed.
NoLoadFailed ==
  \A p \in Callers : callers[p].err # "loader" /\ callers[p].ret.err # "loader"

\* All of them got the same value and no error.
SameValue(ps) ==
  \A p \in ps, q \in ps :
    callers[p].ret.err = "nil" /\ callers[p].ret.val = callers[q].ret.val

Cancels(p) == ~callers[p].cancelled /\ callers'[p].cancelled

\* The step is p's return from GetOrLoad.
Returns(p) == ~Done(p) /\ callers'[p].pc = "done"

\* C13: cancelling the ctx of a follower blocked in its wait makes that
\* follower return ctx.Err() and touches nothing else; the leader goes on and
\* returns fn's result whatever its own ctx; a follower whose ctx is not
\* cancelled returns the (value, error) the leader published.
CancelOnlyFollower ==
  [][\A p \in Callers :
       /\ Cancels(p) =>
            /\ \A q \in Callers \ {p} : callers'[q] = callers[q]
            /\ sf' = sf /\ loads' = loads /\ shards' = shards
            /\ callers'[p].pc = callers[p].pc
            /\ callers'[p].v = callers[p].v /\ callers'[p].err = callers[p].err
            /\ (callers[p].pc = "blocked" /\ callers[p].wake = "none")
                 => callers'[p].wake = "ctx"
       /\ (callers[p].wake = "ctx" /\ ~Returns(p)) => callers'[p].wake = "ctx"
       /\ (callers[p].wake = "ctx" /\ Returns(p))
            => callers'[p].ret = [val |-> NIL, err |-> "ctx"]
       /\ (callers[p].role = "leader" /\ Returns(p))
            => callers'[p].ret = [val |-> callers[p].v, err |-> callers[p].err]
       /\ (callers[p].role = "follower" /\ Returns(p) /\ ~callers[p].cancelled)
            => /\ sf.calls[callers[p].c].done
               /\ callers'[p].ret = [val |-> sf.calls[callers[p].c].val,
                                     err |-> sf.calls[callers[p].c].err]
               /\ \A q \in Callers :
                    (callers[q].role = "leader" /\ callers[q].c = callers[p].c)
                      => (callers[q].v = callers'[p].ret.val
                          /\ callers[q].err = callers'[p].ret.err)]_vars

\* C13 witness: a cancelled follower has returned ctx.Err(), the leader,
\* itself cancelled, and the other follower have returned the loaded value.
CancelledAlone ==
  \E p \in Callers, q \in Callers, r \in Callers :
    /\ Done(p) /\ Done(q) /\ Done(r)
    /\ callers[p].role = "leader" /\ callers[p].cancelled
    /\ callers[p].ret.err = "nil" /\ callers[p].ret.val # NIL
    /\ callers[q].role = "follower" /\ callers[q].cancelled
    /\ callers[q].ret = [val |-> NIL, err |-> "ctx"]
    /\ callers[r].role = "follower" /\ ~callers[r].cancelled
    /\ callers[r].ret = callers[p].ret

\* C14: a loader error is what the leader returns, the failed load and the
\* rest of the leader's call leave every shard as it was, and a GetOrLoad(k)
\* that starts when no call for k is in flight, misses and returns otherwise
\* than by a cancelled wait has seen the loader invoked again.
ErrorsNotCached ==
  /\ [][\A p \in Callers :
          /\ (callers[p].err # "loader" /\ callers'[p].err = "loader")
               => (shards' = shards /\ heap' = heap /\ callers'[p].pc = "publish")
          /\ (callers[p].err = "loader" /\ callers'[p] # callers[p])
               => (shards' = shards /\ heap' = heap)
          /\ (callers[p].err = "loader" /\ Returns(p))
               => callers'[p].ret = [val |-> callers[p].v, err |-> "loader"]]_vars
  /\ [](\A p \in Callers :
          (/\ Done(p) /\ callers[p].role # "none"
           /\ callers[p].ret.err # "ctx" /\ callers[p].seen >= 0)
            => loads[callers[p].key] > callers[p].seen)

\* C14 witness: a leader has returned the loader's error, nothing is cached,
\* and a call started after that flight has had the loader invoked again.
ReloadedAfterError ==
  \E p \in Callers, q \in Callers :
    /\ Done(p) /\ callers[p].role = "leader" /\ callers[p].ret.err = "loader"
    /\ Done(q) /\ callers[q].late /\ callers[q].seen = 1
    /\ callers[q].key = callers[p].key /\ callers[q].ret.err = "loader"
    /\ loads[callers[p].key] = 2
    /\ cacheLen = 0

----------------------------------------------------------------------------
(* Closed cache *)

\* C15: a call that begins on a closed cache leaves every shard (map, list,
\* len, cost, policy queues) and every node as they were; Add and Remove
\* return false, Get misses even on a resident key, Len still returns the
\* number of resident entries, and the cache stays closed.
ClosedIsInert ==
  [][closed =>
       /\ shards' = shards /\ heap' = heap /\ closed'
       /\ metrics' = <<>> /\ onEvict' = <<>>
       /\ last'.op \in {"Add", "Remove"} => ~last'.ok
       /\ last'.op = "Get" => (~last'.ok /\ last'.val = NIL)
       /\ last'.op = "Len" => last'.val = cacheLen]_vars

\* C15 witness: a Get of a resident, live key on a closed cache has missed.
ClosedGetMissed ==
  /\ closed /\ last.op = "Get" /\ last.pre = "live" /\ ~last.ok
  /\ Home(last.k).m[last.k] # NIL /\ cacheLen > 0

----------------------------------------------------------------------------
(* 2Q ghost second chance *)

\* The step admits the absent key k into its shard of an open 2Q cache.
Admits(k) ==
  /\ opt.Policy = "twoq" /\ ~closed
  /\ last'.op \in {"Add", "Set", "SetWithTTL"} /\ last'.k = k
  /\ Home(k).m[k] = NIL

\* The LRU member of A1in.
a1inLRU(s) == s.inList[Len(s.inList)]

\* The key of node n is gone from shard t, and was the first to be evicted.
FirstVictim(n, t) ==
  /\ t.m[heap[n].key] = NIL
  /\ metrics'[1] = Ev("Evict", EvictPolicy, 0)
  /\ onEvict'[1] = [k |-> heap[n].key, v |-> heap[n].val, reason |-> EvictPolicy]

\* The admission of a key that is in the ghost queue: it leaves the ghosts,
\* its node is not put into A1in, and A1in gets no new member.
Bypasses(k, s, t) ==
  /\ k \notin t.ghostIdx
  /\ t.m[k] # NIL => t.m[k] \notin t.inIdx
  /\ Range(t.inList) \subseteq Range(s.inList)

\* A first admission: when A1in is full its LRU member is the victim, and the
\* new node is a member of A1in as long as it is resident.
FirstAdmission(k, s, t) ==
  /\ Len(s.inList) >= s.capIn => FirstVictim(a1inLRU(s), t)
  /\ t.m[k] # NIL => t.m[k] \in t.inIdx

\* C16: in 2Q, admitting a key that is in the ghost queue bypasses A1in; a
\* first admission into a full A1in evicts the LRU member of A1in, which is
\* never a node that came in from the ghosts, because A1in is exactly the
\* nodes of inList and only a newly allocated node ever enters it.
GhostSecondChance ==
  /\ [][/\ \A k \in {last'.k} \cap Keys :
             /\ (Admits(k) /\ k \in Home(k).ghostIdx)
                  => Bypasses(k, Home(k), shards'[getShard(k)])
             /\ (Admits(k) /\ k \notin Home(k).ghostIdx)
                  => FirstAdmission(k, Home(k), shards'[getShard(k)])
        /\ \A i \in DOMAIN shards :
             \A n \in shards'[i].inIdx \ shards[i].inIdx : heap[n] = Blank]_vars
  /\ [](\A i \in DOMAIN shards :
          /\ shards[i].inIdx = Range(shards[i].inList)
          /\ \A n \in shards[i].inIdx : shards[i].m[heap[n].key] = n)

\* C16 witness: an Add has just succeeded and its node is resident outside
\* A1in, which only the ghost path does; A1in is full with another key, so
\* the next first admission overflows it.
GhostReadmitted ==
  /\ opt.Policy = "twoq" /\ ~closed
  /\ last.op = "Add" /\ last.ok /\ last.pre = "absent"
  /\ Home(last.k).m[last.k] # NIL
  /\ Home(last.k).m[last.k] \notin Home(last.k).inIdx
  /\ last.k \notin Home(last.k).ghostIdx
  /\ Len(Home(last.k).inList) = Home(last.k).capIn

----------------------------------------------------------------------------
(* Eviction accounting *)

\* The Metrics.Evict events of a call, in order.
EvictsOf(ml) == SelectSeq(ml, LAMBDA e : e.e = "Evict")

Stores == {"Add", "Set", "SetWithTTL"}

\* The step is a call other than Remove that reaches the shard of its key.
Reaches == ~closed /\ last'.k \in Keys /\ last'.op # "Remove"

\* 1 when the call puts a new entry into shard s, else 0.
Admitted(s) == IF last'.op \in Stores /\ s.m[last'.k] = NIL THEN 1 ELSE 0

\* The call's new entry is a first admission that overflows A1in.
Nominates(s) ==
  /\ opt.Policy = "twoq" /\ Admitted(s) = 1
  /\ last'.k \notin s.ghostIdx /\ Len(s.inList) >= s.capIn

\* The costs of the entries handed to OnEvict from the j-th on.
RECURSIVE CostFrom(_, _)
CostFrom(cb, j) == IF j > Len(cb) THEN 0 ELSE costOf(cb[j].v) + CostFrom(cb, j + 1)

\* The j-th eviction of the call has the reason of its cause; t is the shard
\* after the call, so t.len + (Len(ev) - j + 1) entries were there before it.
Caused(ev, j, s, t) ==
  CASE ev[j].a = EvictTTL ->
         last'.op = "Get" /\ last'.pre = "expired" /\ Len(ev) = 1
    [] ev[j].a = EvictPolicy ->
         /\ last'.op \in Stores
         /\ (j = 1 /\ Nominates(s)) \/ t.len + (Len(ev) - j + 1) > t.cap
         /\ \A i \in 1..j : ev[i].a = EvictPolicy
    [] ev[j].a = EvictCapacity ->
         /\ last'.op \in Stores /\ t.maxCost > 0
         /\ t.len + (Len(ev) - j + 1) <= t.cap
         /\ opt.OnEvict => t.cost + CostFrom(onEvict', j) > t.maxCost
    [] OTHER -> FALSE

\* One Metrics.Evict per entry that left shard s, each with its cause.
MetricPerRemoval(ev, s, t) ==
  /\ Len(ev) = s.len + Admitted(s) - t.len
  /\ \A j \in 1..Len(ev) : Caused(ev, j, s, t)
  /\ last'.op = "Get" => (Len(ev) = 1 <=> last'.pre = "expired")

\* The OnEvict call e names an entry that is gone, with the value it had.
Carried(e, s, t) ==
  /\ t.m[e.k] = NIL
  /\ IF e.k = last'.k /\ last'.op \in Stores
     THEN e.v = last'.v
     ELSE s.m[e.k] # NIL /\ e.v = heap[s.m[e.k]].val

\* One OnEvict call per Metrics.Evict, with the same reason.
CallPerRemoval(cb, ev, s, t) ==
  /\ Len(cb) = Len(ev)
  /\ \A j \in 1..Len(cb) : cb[j].reason = ev[j].a /\ Carried(cb[j], s, t)
  /\ \A i \in 1..Len(cb), j \in 1..Len(cb) : cb[i].k = cb[j].k => i = j

----------------------------------------------------------------------------
(* Shard routing *)

\* n is the smallest power of two that is at least x, for x > 0.
SmallestPow2(n, x) == n >= x /\ n < 2 * x /\ \E e \in 0..30 : n = 2^e

\* The shards that hold an entry of key k.
Holding(k) == {i \in DOMAIN shards : shards[i].m[k] # NIL}

\* C18: New makes S shards, S the smallest power of two >= Options.Shards when
\* Shards > 0; getShard maps every key to one index in 0..S-1 that no call
\* changes; a key is resident only in that shard, a call on k changes no
\* other shard, and a Get hit returns the value stored there for k.
ShardRouting ==
  /\ [](/\ opt.Shards > 0 => SmallestPow2(Cardinality(DOMAIN shards), opt.Shards)
        /\ DOMAIN shards = 0..(Cardinality(DOMAIN shards) - 1)
        /\ \A k \in Keys : getShard(k) \in DOMAIN shards /\ Holding(k) \subseteq {getShard(k)})
  /\ [][/\ DOMAIN shards' = DOMAIN shards
        /\ \A k \in {last'.k} \cap Keys :
             /\ \A i \in DOMAIN shards \ {getShard(k)} : shards'[i] = shards[i]
             /\ (last'.op = "Get" /\ last'.ok)
                  => (Home(k).m[k] # NIL /\ last'.val = heap[Home(k).m[k]].val)
             /\ (/\ last'.op \in Stores /\ ~closed
                 /\ last'.op = "Add" => last'.ok
                 /\ shards'[getShard(k)].m[k] # NIL)
                  => heap'[shards'[getShard(k)].m[k]].val = last'.v]_vars

\* C18 witness: Shards = 3 gave four shards, two of them hold an entry, and a
\* Get has just hit.
RoutedToFour ==
  /\ opt.Shards = 3 /\ Cardinality(DOMAIN shards) = 4
  /\ Cardinality({i \in DOMAIN shards : shards[i].len > 0}) >= 2
  /\ last.op = "Get" /\ last.ok /\ Holding(last.k) = {getShard(last.k)}

----------------------------------------------------------------------------
(* Expiration while trimming *)

\* The entry of key j in shard s has a deadline that has passed.
Stale(s, j) == s.m[j] # NIL /\ heap[s.m[j]].exp # 0 /\ clock > heap[s.m[j]].exp

\* C19: when an Add or Set makes its shard trim (evict for the entry or the
\* cost limit), no entry of the shard whose deadline had passed is left.
TrimRemovesExpired ==
  [][\A k \in {last'.k} \cap Keys :
       (last'.op \in Stores /\ ~closed /\ EvictsOf(metrics') # <<>>)
         => \A j \in Keys \ {k} : Stale(Home(k), j) => shards'[getShard(k)].m[j] = NIL]_vars

----------------------------------------------------------------------------
(* Deadlines *)

\* The deadline of the entry of key k after the step; 0 is no deadline.
ExpAfter(k) == heap'[shards'[getShard(k)].m[k]].exp

\* C20: an Add that inserts and a Set give the entry the deadline
\* now + DefaultTTL when DefaultTTL > 0 and none otherwise; SetWithTTL gives
\* now + ttl when ttl > 0 and none when ttl <= 0, whatever DefaultTTL is; an
\* entry without a deadline is never found expired.
DeadlineSelection ==
  [][\A k \in {last'.k} \cap Keys :
       /\ (/\ ~closed /\ shards'[getShard(k)].m[k] # NIL
           /\ last'.op = "Set" \/ (last'.op = "Add" /\ last'.ok))
            => ExpAfter(k) = IF opt.DefaultTTL > 0 THEN clock + opt.DefaultTTL ELSE 0
       /\ (~closed /\ shards'[getShard(k)].m[k] # NIL /\ last'.op = "SetWithTTL")
            => ExpAfter(k) = IF last'.ttl > 0 THEN clock + last'.ttl ELSE 0
       /\ (/\ ~closed /\ last'.op = "Get"
           /\ Home(k).m[k] # NIL /\ heap[Home(k).m[k]].exp = 0)
            => (last'.ok /\ ExpAfter(k) = 0)]_vars

\* C20 witness: under DefaultTTL = 1 an entry stored by SetWithTTL with
\* ttl <= 0 has no deadline and is still hit at time 2.
NoDeadlineDespiteDefault ==
  /\ opt.DefaultTTL = 1 /\ clock = 2 /\ ~closed
  /\ last.op = "Get" /\ last.ok
  /\ heap[Home(last.k).m[last.k]].exp = 0

----------------------------------------------------------------------------
(* Size reports *)

\* The Metrics.Size events of a call, in order.
SizesOf(ml) == SelectSeq(ml, LAMBDA e : e.e = "Size")

\* The Size event that reports shard t.
SizeNow(t) == Ev("Size", t.len, t.cost)

\* The step is an Add that inserted, or a Set, on an open cache.
Wrote == ~closed /\ last'.op \in Stores /\ (last'.op = "Add" => last'.ok)

\* The step is a Remove that removed or a Get that found its entry expired.
Dropped ==
  /\ ~closed
  /\ \/ last'.op = "Remove" /\ last'.ok
     \/ last'.op = "Get" /\ last'.pre = "expired"

\* C21 as stated: after each Add, Set, Remove and each Get that expires an
\* entry, a Size(len, cost) event with the shard's len and cost is emitted.
SizeAfterEveryMutation ==
  [][\A k \in {last'.k} \cap Keys :
       (Wrote \/ Dropped) => SizesOf(metrics') = <<SizeNow(shards'[getShard(k)])>>]_vars

\* C21 amended: after each Add that inserts and each Set the limits are
\* enforced and one Size(len, cost) event, the last event of the call, reports
\* the shard's len and cost at the return; Remove, Get (also one that expires
\* an entry) and a refused Add emit no Size event.
SizeAfterStore ==
  [][\A k \in {last'.k} \cap Keys :
       /\ Wrote => /\ SizesOf(metrics') = <<SizeNow(shards'[getShard(k)])>>
                   /\ metrics'[Len(metrics')] = SizeNow(shards'[getShard(k)])
                   /\ shards'[getShard(k)].len <= shards'[getShard(k)].cap
       /\ ~Wrote => SizesOf(metrics') = <<>>]_vars

\* C21 witness: a Set that evicted for the cost limit has reported the len and
\* cost left after the eviction.
SizeAfterTrim ==
  /\ ~closed /\ last.op = "Set" /\ HasReason(metrics, EvictCapacity)
  /\ Home(last.k).cost > 0
  /\ metrics[Len(metrics)] = SizeNow(Home(last.k))

----------------------------------------------------------------------------
(* Construction *)

\* The number of shards New made; 0 before New.
ShardCount == Cardinality(DOMAIN shards)

CeilDiv(a, b) == (a + b - 1) \div b

\* C22: with Options.MaxCost > 0 every shard's maxCost is ceil(MaxCost / S),
\* S the number of shards the cache has.
MaxCostSplitByShards ==
  (ShardCount > 0 /\ opt.MaxCost > 0) =>
    \A i \in DOMAIN shards : shards[i].maxCost = CeilDiv(opt.MaxCost, ShardCount)

\* C23: with Options.Shards <= 0 New makes ReasonableShardCount() shards,
\* next_pow2(2 x GOMAXPROCS) clamped to 1..256.
DefaultShardCount ==
  (ShardCount > 0 /\ opt.Shards <= 0) =>
    /\ ShardCount = ReasonableShardCount(procs)
    /\ ShardCount \in 1..256

----------------------------------------------------------------------------
(* The eviction routine *)

\* The statements of evictNode, in source order; the last one only with an
\* OnEvict callback configured.
EvictSteps ==
  IF opt.OnEvict
  THEN <<"OnRemove", "removeNode", "delete", "evicts.Add", "Metrics.Evict", "OnEvict">>
  ELSE <<"OnRemove", "removeNode", "delete", "evicts.Add", "Metrics.Evict">>

\* The position of the j-th executed statement within its run of evictNode.
StepOf(j) == ((j - 1) % Len(EvictSteps)) + 1

\* tr is a sequence of complete runs of evictNode, each on one node.
WholeRuns(tr) ==
  /\ Len(tr) % Len(EvictSteps) = 0
  /\ \A j \in 1..Len(tr) :
       /\ tr[j].do = EvictSteps[StepOf(j)]
       /\ tr[j].k = tr[j - StepOf(j) + 1].k

\* The number of runs of evictNode in tr.
Runs(tr) == Len(tr) \div Len(EvictSteps)

\* C24: every eviction runs OnRemove, list unlink, map delete, evicts.Add,
\* Metrics.Evict and (when configured) OnEvict, in this order, once per evicted
\* node, all within the call that holds the shard lock: when the call returns
\* the node is out of the map, the list and the policy queues, the counter
\* and Metrics have one eviction per run and OnEvict has been called for it.
EvictNodeOrder ==
  [][/\ WholeRuns(last'.tr)
     /\ \A k \in {last'.k} \cap Keys :
          /\ Runs(last'.tr) = shards'[getShard(k)].evicts - Home(k).evicts
          /\ Runs(last'.tr) = Len(EvictsOf(metrics'))
          /\ opt.OnEvict =>
               /\ Len(onEvict') = Runs(last'.tr)
               /\ \A j \in 1..Len(onEvict') :
                    onEvict'[j].k = last'.tr[j * Len(EvictSteps)].k
          /\ \A j \in 1..Len(last'.tr) :
               /\ shards'[getShard(k)].m[last'.tr[j].k] = NIL
               /\ last'.tr[j].k \notin Range(KeysOf(shards'[getShard(k)], heap'))
     /\ (last'.k \notin Keys \/ last'.op = "Remove") => last'.tr = <<>>]_vars

\* C24 witness: one call has run the eviction routine twice, on two nodes,
\* with the callback at the end of each run.
TwoRuns ==
  /\ opt.OnEvict /\ ~closed /\ Runs(last.tr) = 2
  /\ last.tr[6].do = "OnEvict" /\ last.tr[12].do = "OnEvict"
  /\ last.tr[1].k # last.tr[7].k
  /\ Len(onEvict) = 2

----------------------------------------------------------------------------
(* Lock discipline *)

\* Goroutine p is between the acquisition and the release of a shard lock.
Inside(p) == callers[p].pc \in {"in", "out"}

\* The goroutines inside a method of shard i that writes, and that only reads.
Writers(i) == {p \in Callers : Inside(p) /\ callers[p].i = i /\ callers[p].op # "Len"}
Readers(i) == {p \in Callers : Inside(p) /\ callers[p].i = i /\ callers[p].op = "Len"}

\* Shard i without its lock word: map, list ends, len, cost, policy queues.
Guarded(sh, i) == [sh[i] EXCEPT !.mu = NIL]

\* C25: at most one goroutine is inside an Add, Set, Get or Remove of a shard,
\* it holds the shard's exclusive lock, and no Len is inside with it; a Len
\* holds the shared lock; the shard's state and its nodes change only by the
\* body step of the goroutine that holds the exclusive lock (which contains
\* every policy callback and hook call), and Len returns the len it read
\* under the shared lock.
LockDiscipline ==
  /\ [](\A i \in DOMAIN shards :
          /\ Cardinality(Writers(i)) <= 1
          /\ Writers(i) # {} => Readers(i) = {}
          /\ Writers(i) = IF shards[i].mu.w = NIL THEN {} ELSE {shards[i].mu.w}
          /\ Readers(i) = shards[i].mu.r)
  /\ [][/\ \A i \in DOMAIN shards :
             Guarded(shards', i) # Guarded(shards, i) =>
               /\ shards[i].mu.w # NIL
               /\ callers[shards[i].mu.w].pc = "in"
               /\ callers'[shards[i].mu.w].pc = "out"
               /\ \A j \in DOMAIN shards \ {i} : shards'[j] = shards[j]
        /\ heap' # heap => \E p \in Callers :
                              /\ shards[callers[p].i].mu.w = p
                              /\ callers[p].pc = "in" /\ callers'[p].pc = "out"
        /\ \A p \in Callers :
             (callers[p].pc = "in" /\ callers'[p].pc = "out" /\ callers[p].op = "Len")
               => /\ p \in shards[callers[p].i].mu.r
                  /\ callers'[p].ret = shards[callers[p].i].len
                  /\ shards' = shards]_vars

\* C25 witness: a goroutine has run the body of Set under the exclusive lock
\* of a shard while another waits at the lock of the same shard for its Get.
WriterHoldsWhileGetWaits ==
  \E p \in Callers, q \in Callers :
    /\ callers[p].pc = "out" /\ callers[p].op = "Set"
    /\ shards[callers[p].i].mu.w = p /\ shards[callers[p].i].len > 0
    /\ callers[q].pc = "lock" /\ callers[q].op = "Get"
    /\ callers[q].i = callers[p].i /\ callers[q].key = callers[p].key

(* Singleflight *)

\* The goroutines that hold the record of the key k in g.m: leaders from the
\* first critical section of Do to delete(g.m, key).
Leading(k) ==
  {p \in Callers : /\ callers[p].role = "leader" /\ callers[p].key = k
                   /\ callers[p].pc \in {"fn", "load", "set", "publish", "unmark"}}

\* The goroutines executing fn for the key k.
RunningFn(k) == {p \in Leading(k) : callers[p].pc \in {"fn", "load", "set"}}

\* C26: per key at most one execution of fn is in progress, and it is the
\* one g.m records; a caller that finds a record for its key in g.m waits in
\* select and never runs fn or the loader; an execution for a key starts only
\* in a state where g.m holds no record for it, every earlier leader for the
\* key having deleted its record and returned.
SingleflightExclusion ==
  /\ [](\A k \in Keys :
          /\ Cardinality(RunningFn(k)) <= 1
          /\ Cardinality(Leading(k)) <= 1
          /\ Leading(k) = IF sf.m[k] = NIL THEN {} ELSE {sf.m[k]}
          /\ \A p \in Callers :
               callers[p].role = "follower" =>
                 callers[p].pc \in {"select", "blocked", "done"})
  /\ [][\A p \in Callers :
          /\ (callers[p].pc = "do" /\ sf.m[callers[p].key] # NIL
                                    /\ callers'[p] # callers[p]) =>
               /\ callers'[p].role = "follower" /\ callers'[p].pc = "select"
               /\ callers'[p].c = sf.m[callers[p].key]
               /\ loads' = loads /\ sf' = sf
          /\ (callers[p].pc # "fn" /\ callers'[p].pc = "fn") =>
               /\ sf.m[callers[p].key] = NIL
               /\ sf'.m[callers[p].key] = p
               /\ \A q \in Callers \ {p} :
                    (callers[q].role = "leader" /\ callers[q].key = callers[p].key)
                      => callers[q].pc = "done"]_vars

\* C26 witness: a second execution of fn for a key runs its loader, with a
\* follower waiting on it, after the first leader for that key failed,
\* deleted its record and returned.
SecondFlight ==
  \E p \in Callers, q \in Callers, f \in Callers :
    /\ callers[p].role = "leader" /\ callers[p].pc = "done"
    /\ callers[q].role = "leader" /\ callers[q].pc = "load"
    /\ callers[q].key = callers[p].key /\ sf.m[callers[q].key] = q
    /\ callers[f].role = "follower" /\ callers[f].pc = "blocked" /\ callers[f].c = q
    /\ loads[callers[q].key] = 1

(* 2Q: the bound of A1in *)

\* The members of the queue q that are in the set S, in the order of q.
RECURSIVE Kept(_, _)
Kept(q, S) ==
  IF q = <<>> THEN <<>>
  ELSE IF Head(q) \in S THEN <<Head(q)>> \o Kept(Tail(q), S)
  ELSE Kept(Tail(q), S)

\* The nodes of shard t that its map refers to.
Mapped(t) == {t.m[k] : k \in Keys} \ {NIL}

\* The first node the call handed to evictNode has the key x.
EvictsFirst(x) == last'.tr # <<>> /\ last'.tr[1] = [do |-> "OnRemove", k |-> x]

\* The first admission of k from shard s to shard t: the new node, while
\* resident, is the MRU of A1in, in front of the old members that are still
\* resident; when A1in overflows the first node evicted is its old LRU member,
\* with reason Policy; when it does not, the policy proposes nothing and any
\* eviction starts at the LRU end of the shard list.
IntoA1in(k, s, t) ==
  /\ t.m[k] # NIL => /\ t.inList # <<>> /\ t.inList[1] = t.m[k]
                     /\ heap[t.m[k]] = Blank
                     /\ Tail(t.inList) = Kept(s.inList, Mapped(t))
  /\ t.m[k] = NIL => t.inList = Kept(s.inList, Mapped(t))
  /\ Len(s.inList) >= s.capIn =>
       /\ a1inLRU(s) \in s.inIdx /\ heap[a1inLRU(s)] # Blank
       /\ EvictsFirst(heap[a1inLRU(s)].key)
       /\ metrics'[1] = Ev("Evict", EvictPolicy, 0)
       /\ a1inLRU(s) \notin t.inIdx
  /\ (Len(s.inList) < s.capIn /\ last'.tr # <<>>) =>
       EvictsFirst(IF s.tail = NIL THEN k ELSE heap[s.tail].key)

\* C27: a first admission puts the node at the MRU end of A1in; when that
\* makes |A1in| > capIn the node at the LRU end of A1in (an old member of
\* A1in, so neither the new node nor an Am node) is evicted first, with reason
\* Policy; |A1in| <= capIn whenever a shard operation has returned.
A1inBound ==
  /\ [](\A i \in DOMAIN shards :
          /\ Len(shards[i].inList) <= shards[i].capIn
          /\ Cardinality(shards[i].inIdx) = Len(shards[i].inList))
  /\ [][\A k \in {last'.k} \cap Keys :
          (Admits(k) /\ k \notin Home(k).ghostIdx)
            => IntoA1in(k, Home(k), shards'[getShard(k)])]_vars

\* C27 witness: a Set has admitted a new key into a full A1in; one node was
\* evicted, with reason Policy, and its key went to the ghosts, while an Am
\* node stays at the LRU end of the shard list.
A1inOverflowSparesAm ==
  /\ opt.Policy = "twoq" /\ ~closed
  /\ last.op = "Set" /\ last.pre = "absent" /\ last.tr # <<>>
  /\ Len(metrics) = 2 /\ metrics[1] = Ev("Evict", EvictPolicy, 0)
  /\ Home(last.k).m[last.k] # NIL
  /\ Home(last.k).inList = <<Home(last.k).m[last.k]>>
  /\ Home(last.k).head = Home(last.k).m[last.k]
  /\ Home(last.k).tail \notin Home(last.k).inIdx \cup {NIL}
  /\ Home(last.k).ghostList # <<>> /\ Home(last.k).ghostList[1] = last.tr[1].k

(* 2Q: promotion *)

\* The step is a Get hit or a Set update of the key k, resident in A1in of
\* its shard of an open 2Q cache.
Touches(k) ==
  /\ opt.Policy = "twoq" /\ ~closed /\ last'.k = k
  /\ Home(k).m[k] # NIL /\ Home(k).m[k] \in Home(k).inIdx
  /\ \/ last'.op = "Get" /\ last'.ok
     \/ last'.op \in {"Set", "SetWithTTL"}

\* The node n of key k graduates from shard s to shard t: it is no longer in
\* A1in, whose other members keep their order; it is the head of the shard
\* list, unless the limits enforced after a Set update evicted it, which is
\* only once every node behind it is gone; the ghosts are untouched by a Get.
Graduates(k, n, s, t) ==
  /\ n \notin t.inIdx
  /\ t.inList = Kept(SeqRemove(s.inList, n), Mapped(t))
  /\ t.m[k] \in {n, NIL}
  /\ t.m[k] = n => t.head = n /\ heap'[n].prev = NIL
  /\ t.m[k] = NIL => last'.op # "Get" /\ t.len = 0 /\ t.head = NIL
  /\ last'.op = "Get" => t.ghostList = s.ghostList /\ t.len = s.len

\* C28: in 2Q a Get hit or a Set update on a node of A1in takes it out of
\* A1in and makes it the MRU of the shard list; a node that is resident and
\* outside A1in is outside A1in after every step that leaves it resident.
Promotion ==
  [][/\ \A k \in {last'.k} \cap Keys :
          Touches(k) => Graduates(k, Home(k).m[k], Home(k), shards'[getShard(k)])
     /\ \A i \in DOMAIN shards : \A n \in shards'[i].inIdx :
          (/\ heap[n] # Blank
           /\ shards[i].m[heap[n].key] = n
           /\ shards'[i].m[heap[n].key] = n) => n \in shards[i].inIdx]_vars

\* C28 witness: a Get has hit a key whose node is now the head of the shard
\* list and outside A1in, in a shard that never evicted and holds no ghost,
\* with another node still in A1in behind it.
GraduatedAhead ==
  /\ opt.Policy = "twoq" /\ ~closed
  /\ last.op = "Get" /\ last.ok
  /\ Home(last.k).head = Home(last.k).m[last.k]
  /\ Home(last.k).head \notin Home(last.k).inIdx
  /\ Home(last.k).tail \in Home(last.k).inIdx
  /\ Home(last.k).ghostList = <<>> /\ Home(last.k).evicts = 0

(* 2Q: the ghost queue *)

\* The keys of the nodes the call handed to evictNode, in order.
RECURSIVE EvictedKeys(_)
EvictedKeys(tr) ==
  IF tr = <<>> THEN <<>>
  ELSE IF Head(tr).do = "OnRemove" THEN <<Head(tr).k>> \o EvictedKeys(Tail(tr))
  ELSE EvictedKeys(Tail(tr))

\* The keys whose nodes the step removes from shard s, in order.
RemovedKeys(s) ==
  IF last'.op = "Remove"
  THEN IF s.m[last'.k] # NIL THEN <<last'.k>> ELSE <<>>
  ELSE EvictedKeys(last'.tr)

\* The keys whose node is in A1in when the step removes it: the members of
\* A1in before the step, without a key the step updates (it graduates first),
\* and with a key the step admits for the first time.
RemovedFromA1in(s) ==
  {x \in Keys : /\ s.m[x] # NIL /\ s.m[x] \in s.inIdx
                /\ ~(x = last'.k /\ last'.op \in Stores)}
    \cup {x \in {last'.k} : last'.op \in Stores /\ s.m[x] = NIL /\ x \notin s.ghostIdx}

\* The ghost queue g once the key x has been pushed to its MRU end and the
\* queue cut to cap keys from the LRU end.
Cut(g, cap) == IF Len(g) > cap THEN SubSeq(g, 1, cap) ELSE g
Pushed(g, x, cap) == Cut(<<x>> \o SeqRemove(g, x), cap)

\* The ghost queue g after the removals R, of which those of keys in A come
\* from A1in.
RECURSIVE GhostsAfter(_, _, _, _)
GhostsAfter(g, R, A, cap) ==
  IF R = <<>> THEN g
  ELSE GhostsAfter(IF Head(R) \in A THEN Pushed(g, Head(R), cap) ELSE g, Tail(R), A, cap)

\* The ghost queue of s as OnAdd leaves it: a readmitted key has left it.
GhostsAdmitted(s) ==
  IF last'.op \in Stores /\ s.m[last'.k] = NIL
  THEN SeqRemove(s.ghostList, last'.k)
  ELSE s.ghostList

\* C29: in 2Q every removal of a node that is in A1in (Remove, TTL expiry,
\* policy, capacity or cost eviction) puts its key at the MRU end of the
\* ghost queue and cuts the queue to capGhost keys from the LRU end; the
\* removal of an Am node leaves the queue as it is; |A1out| <= capGhost.
GhostMaintenance ==
  /\ [](\A i \in DOMAIN shards :
          /\ Len(shards[i].ghostList) <= shards[i].capGhost
          /\ Cardinality(shards[i].ghostIdx) = Len(shards[i].ghostList)
          /\ shards[i].ghostIdx = Range(shards[i].ghostList))
  /\ [][\A k \in {last'.k} \cap Keys :
          (opt.Policy = "twoq" /\ ~closed) =>
             shards'[getShard(k)].ghostList =
               GhostsAfter(GhostsAdmitted(Home(k)), RemovedKeys(Home(k)),
                           RemovedFromA1in(Home(k)), Home(k).capGhost)]_vars

\* C29 witness: a Remove has taken the last node out of a shard whose ghost
\* queue is full with two keys, the removed key at its MRU end, and one key
\* of the workload is neither resident nor a ghost.
GhostPushedAndTrimmed ==
  /\ opt.Policy = "twoq" /\ ~closed
  /\ last.op = "Remove" /\ last.ok
  /\ Home(last.k).len = 0
  /\ Home(last.k).capGhost = 2 /\ Len(Home(last.k).ghostList) = 2
  /\ Home(last.k).ghostList[1] = last.k
  /\ \E x \in env.keys : getShard(x) = getShard(last.k) /\ x \notin Home(last.k).ghostIdx

(* TTL: the boundary *)

\* Get on the node n of key k, whose deadline is exp, from shard s to shard t:
\* a hit with the node's value while exp is 0 or the clock has not passed
\* exp, and a miss that evicts the node with reason TTL once it has.
GetAt(k, n, exp, t) ==
  /\ (exp = 0 \/ clock <= exp) =>
       /\ last'.ok /\ last'.val = heap[n].val
       /\ t.m[k] = n /\ heap'[n].exp = exp
       /\ metrics' = <<Ev("Hit", 0, 0)>>
  /\ (exp # 0 /\ clock > exp) =>
       /\ ~last'.ok /\ t.m[k] = NIL
       /\ metrics' = <<Ev("Evict", EvictTTL, 0), Ev("Miss", 0, 0)>>
  /\ (t.m[k] = NIL \/ ~last'.ok) => (exp # 0 /\ clock > exp)

\* C30: on an open cache, Get of a resident entry with deadline exp # 0 is a
\* hit whenever now <= exp, now = exp included, and expires the entry only
\* when now > exp; an entry with exp = 0 is a hit whatever the clock says.
TTLBoundary ==
  [][\A k \in {last'.k} \cap Keys :
       (~closed /\ last'.op = "Get" /\ Home(k).m[k] # NIL) =>
          GetAt(k, Home(k).m[k], heap[Home(k).m[k]].exp, shards'[getShard(k)])]_vars

\* C30 witness: a Get has hit an entry at the very instant of its deadline.
HitAtDeadline ==
  /\ ~closed /\ last.op = "Get" /\ last.ok /\ clock > 0
  /\ Home(last.k).m[last.k] # NIL
  /\ heap[Home(last.k).m[last.k]].exp = clock

(* Hit and miss accounting *)

\* What Get executes on a hit and on a miss.
HitSteps == <<"OnGet", "hits.Add">>
MissSteps == <<"misses.Add">>

\* The Hit and Miss events among the events ml.
HitsAndMisses(ml) == SelectSeq(ml, LAMBDA e : e.e \in {"Hit", "Miss"})

\* Get of k from shard s to shard t is a hit exactly when k is resident and
\* not expired: a hit calls OnGet (the node becomes the head of the list),
\* increments hits and emits Hit; a miss increments misses and emits Miss,
\* and calls no OnGet (what stays resident keeps its order).
Accounts(k, s, t) ==
  /\ last'.ok <=> last'.pre = "live"
  /\ last'.ok =>
       /\ last'.ct = HitSteps
       /\ HitsAndMisses(metrics') = <<Ev("Hit", 0, 0)>>
       /\ t.head = s.m[k] /\ t.m[k] = s.m[k]
  /\ ~last'.ok =>
       /\ last'.ct = MissSteps
       /\ HitsAndMisses(metrics') = <<Ev("Miss", 0, 0)>>
       /\ t.m[k] = NIL
       /\ KeysOf(t, heap') = KeysExcept(ListOf(s, heap), heap, k)
  /\ last'.pre = "expired" =>
       /\ ~last'.ok /\ metrics'[1] = Ev("Evict", EvictTTL, 0)
       /\ t.evicts = s.evicts + 1

\* C31: every Get on an open cache increments exactly one of hits and misses
\* and emits exactly one of Hit and Miss; it is a hit iff the key is resident
\* and not expired; a Get that expires an entry is a miss; only a hit calls
\* OnGet.  No other operation counts or emits a hit or a miss.
HitMissAccounting ==
  [][/\ \A k \in {last'.k} \cap Keys :
          (~closed /\ last'.op = "Get") =>
             Accounts(k, Home(k), shards'[getShard(k)])
     /\ last'.op # "Get" => last'.ct = <<>> /\ HitsAndMisses(metrics') = <<>>]_vars

\* C31 witness: a Get has expired an entry and counted a miss, after the
\* eviction it reported.
ExpiryCountedAsMiss ==
  /\ ~closed /\ last.op = "Get" /\ last.pre = "expired" /\ ~last.ok
  /\ last.ct = <<"misses.Add">>
  /\ metrics = <<Ev("Evict", EvictTTL, 0), Ev("Miss", 0, 0)>>

(* Progress *)

\* Goroutine p is inside a call it has not returned from.  A worker is back
\* at idle when its method has returned; GetOrLoad has returned at done, with
\* g.mu released.
InCall(p) ==
  \/ callers[p].pc \notin {"idle", "done"}
  \/ callers[p].pc = "done" /\ sf.mu = p

HasReturned(p) ==
  /\ ~InCall(p)
  /\ callers[p].pc = "done" \/ callers[p].n = 1

\* Goroutine p holds the lock of some shard.
HoldsShard(p) ==
  \E i \in DOMAIN shards : shards[i].mu.w = p \/ p \in shards[i].mu.r

\* A follower whose wait is over: done is closed or its ctx is cancelled.
Released(p) ==
  /\ callers[p].role = "follower" /\ callers[p].pc \in {"select", "blocked"}
  /\ callers[p].cancelled \/ sf.calls[callers[p].c].done

\* C32: with terminating loader and callbacks and fair scheduling, every
\* shard method call and every GetOrLoad, of a leader or of a follower,
\* returns, a follower once done is closed or its ctx is cancelled, so no
\* reachable state with a call in progress is a deadlock; no goroutine holds g.mu
\* together with a shard lock, and none holds g.mu while it runs the loader,
\* stores the result or publishes it.
Progress ==
  /\ \A p \in Callers : InCall(p) ~> HasReturned(p)
  /\ \A p \in Callers : Released(p) ~> (callers[p].pc = "done")
  /\ [](\A p \in Callers :
          /\ sf.mu = p => /\ ~HoldsShard(p)
                          /\ callers[p].pc \in {"do", "fn", "select", "unmark", "done"}
          /\ HoldsShard(p) => callers[p].pc \in {"in", "out"} /\ sf.mu # p
          /\ callers[p].pc \in {"load", "set", "publish"} => sf.mu # p)

\* C32 witness: a follower is blocked in select on a leader whose loader is
\* running, while a worker holds the shard lock inside Set or Remove.
BlockedBehindLoader ==
  \E p \in Callers, q \in Callers, r \in Callers :
    /\ callers[p].role = "leader" /\ callers[p].pc = "load"
    /\ callers[q].role = "follower" /\ callers[q].pc = "blocked" /\ callers[q].c = p
    /\ callers[r].pc = "in" /\ shards[callers[r].i].mu.w = r
    /\ sf.mu = NIL

----------------------------------------------------------------------------
(* Len under concurrent writers *)

\* The number of resident entries of the whole cache in the snapshot ls.
Total(ls) == SumLen([i \in DOMAIN ls |-> [len |-> ls[i]]], 0)

\* The Len calls that have returned.
LenReturned == {p \in Callers : callers[p].op = "Len" /\ callers[p].pc = "done"}

\* Len returned the cache-wide count of some instant of the call.
LenIsSnapshot ==
  \A p \in LenReturned : \E ls \in callers[p].view : callers[p].ret = Total(ls)

\* C33: Len() returns the sum over the shards of a length that shard had at
\* some instant of the call (one instant per shard); when no shard changed
\* its length during the call this is the cache-wide number of resident
\* entries, and it always lies between the sums of the smallest and of the
\* largest length each shard had during the call.
LenSumsShards ==
  \A p \in LenReturned :
    /\ \E f \in [DOMAIN shards -> callers[p].view] :
         callers[p].ret = Total([i \in DOMAIN shards |-> f[i][i]])
    /\ Cardinality(callers[p].view) = 1 =>
         \A ls \in callers[p].view : callers[p].ret = Total(ls)

\* A Len that returned 2 although the cache never held more than one entry
\* during the call.
LenOfNoInstant ==
  \E p \in LenReturned :
    /\ callers[p].ret = 2
    /\ \A ls \in callers[p].view : Total(ls) <= 1

----------------------------------------------------------------------------
(* Cost computation *)

\* The cost stored for the entries just inserted: 0 without a Cost function,
\* else Cost(v) clamped to [0, 2^31 - 1].
StoredCostClamped ==
  last.op = "Add" =>
    /\ opt.Cost = "nil" => last.cost = Zero64
    /\ opt.Cost # "nil" =>
         /\ WideLe(last.cost, MaxInt32W)
         /\ last.iv.neg => last.cost = Zero64
         /\ ~last.iv.neg /\ WideLe(last.iv.mag, MaxInt32W) => last.cost = last.iv.mag
         /\ ~last.iv.neg /\ ~WideLe(last.iv.mag, MaxInt32W) => last.cost = MaxInt32W

\* s.cost is the sum of the costs of the resident entries.
SumExact == shards[0].cost = last.sum /\ ~Negative64(shards[0].cost)

\* The 64-bit sum does not wrap for any number of resident entries up to cap.
CostNoWrapToCap ==
  /\ StoredCostClamped
  /\ WideLe(shards[0].len, shards[0].cap) => SumExact

\* C34: the cost stored for an entry is 0 when no Cost function is configured
\* and otherwise Cost(v) clamped to [0, 2^31 - 1]; the shard's 64-bit sum of
\* costs does not wrap for any number of resident entries up to 2^32 + 2.
CostNoWrap ==
  /\ StoredCostClamped
  /\ WideLe(shards[0].len, Wide(2, 0, 1, 0, 0)) => SumExact

\* 2^32 + 2 resident entries of cost 2^31 - 1 each: the sum is 2^63 - 2.
LargestExactSum ==
  /\ shards[0].len = Wide(2, 0, 1, 0, 0)
  /\ shards[0].cost = Wide(65534, 65535, 65535, 32767, 0)
  /\ last.sum = shards[0].cost
  /\ ~WideLe(last.iv.mag, MaxInt32W)

----------------------------------------------------------------------------
(* 2Q: A1in tracks resident nodes only *)

\* The nodes of shard s that the step, a call on an open cache, removes.
RemovedNodes(s) == {s.m[x] : x \in Range(RemovedKeys(s))} \ {NIL}

\* C35: whenever a shard operation has returned, inList and inIdx hold the
\* same nodes, each once, and each of them is the node the map has under its
\* key and a node of the shard list; a node that a step removes (by Remove,
\* or by a TTL, policy, count or cost eviction) is in A1in no longer.
A1inTracksResident ==
  /\ [](\A i \in DOMAIN shards :
          /\ Range(shards[i].inList) = shards[i].inIdx
          /\ Len(shards[i].inList) = Cardinality(shards[i].inIdx)
          /\ \A n \in shards[i].inIdx :
               /\ n # NIL /\ heap[n].key \in Keys
               /\ shards[i].m[heap[n].key] = n
               /\ n \in Range(ListOf(shards[i], heap)))
  /\ [][\A k \in {last'.k} \cap Keys :
          ~closed => RemovedNodes(Home(k)) \cap shards'[getShard(k)].inIdx = {}]_vars

\* C35 witness: a Get has found the one node of A1in past its deadline and
\* evicted it; its key went to the ghosts, A1in is empty, and a node of Am
\* stays resident.
ExpiredLeftA1in ==
  /\ opt.Policy = "twoq" /\ ~closed
  /\ last.op = "Get" /\ last.pre = "expired" /\ ~last.ok
  /\ Home(last.k).m[last.k] = NIL
  /\ Home(last.k).ghostList # <<>> /\ Home(last.k).ghostList[1] = last.k
  /\ Home(last.k).inIdx = {} /\ Home(last.k).inList = <<>>
  /\ Home(last.k).len = 1

----------------------------------------------------------------------------
(* 2Q: ghosts are not resident *)

\* C36: whenever a shard operation has returned, no key of the ghost queue
\* A1out is resident in the shard, and ghostList and ghostIdx hold the same
\* keys, each key once.
GhostsNotResident ==
  \A i \in DOMAIN shards :
    /\ shards[i].ghostIdx \cap Resident(shards[i]) = {}
    /\ \A j \in 1..Len(shards[i].ghostList) : shards[i].m[shards[i].ghostList[j]] = NIL
    /\ Range(shards[i].ghostList) = shards[i].ghostIdx
    /\ \A a, b \in 1..Len(shards[i].ghostList) :
         shards[i].ghostList[a] = shards[i].ghostList[b] => a = b

\* C36 witness: a Set has readmitted a ghost key straight into Am; the key
\* has left the ghost queue, which still holds another key.
ReadmittedLeavesGhosts ==
  /\ opt.Policy = "twoq" /\ ~closed
  /\ last.op = "Set" /\ last.pre = "absent"
  /\ Home(last.k).m[last.k] # NIL
  /\ Home(last.k).m[last.k] \notin Home(last.k).inIdx
  /\ last.k \notin Home(last.k).ghostIdx
  /\ Home(last.k).ghostList # <<>>

----------------------------------------------------------------------------
(* Entry conservation *)

\* 1 when the step is an Add that returned true or a Set/SetWithTTL that
\* found its key absent in shard s, else 0.
Admissions(s) ==
  IF last'.op = "Add" THEN (IF last'.ok THEN 1 ELSE 0)
  ELSE IF last'.op \in {"Set", "SetWithTTL"} /\ ~closed /\ s.m[last'.k] = NIL THEN 1
  ELSE 0

\* The number of Evict events of the step.
Ejections == Len(EvictsOf(metrics'))

\* 1 when the step is a Remove that returned true, else 0.
Removals == IF last'.op = "Remove" /\ last'.ok THEN 1 ELSE 0

\* The step is a Set or SetWithTTL that finds its key resident in shard s.
UpdatesInPlace(s) ==
  /\ ~closed /\ last'.op \in {"Set", "SetWithTTL"} /\ last'.k \in Keys
  /\ s.m[last'.k] # NIL

\* The step, on shard g, changes its len by admissions - evictions - removals,
\* counts each eviction in s.evicts, and leaves the other shards alone.
BalancedAt(g) ==
  /\ shards'[g].len - shards[g].len = Admissions(shards[g]) - Ejections - Removals
  /\ shards'[g].evicts - shards[g].evicts = Ejections
  /\ \A i \in DOMAIN shards \ {g} : shards'[i] = shards[i]

\* An in-place update admits and evicts nothing.
UpdateInert(s, k) == UpdatesInPlace(s) => Admissions(s) = 0 /\ Ejections = 0

\* Conservation, with an in-place Set update that neither admits nor evicts.
ConservationUpdateNeverEvicts ==
  [][/\ \A k \in {last'.k} \cap Keys : \A g \in {getShard(k)} :
          BalancedAt(g) /\ UpdateInert(shards[g], k)
     /\ last'.k \notin Keys => (shards' = shards /\ Ejections = 0)]_vars

\* The update of key k to value v takes the cost of shard s over its limit.
OverCost(s, k, v) ==
  s.maxCost > 0 /\ s.cost - heap[s.m[k]].cost + costOf(v) > s.maxCost

\* C37: per shard, every operation changes len by the number of admissions
\* (an Add that returned true, a Set/SetWithTTL that found the key absent)
\* minus the number of Evict events minus 1 for a Remove that returned true,
\* so that admissions = len + evictions + successful Removes at every
\* quiescent point; an in-place Set update admits nothing, and evicts nothing
\* unless cost limiting is on and the new cost takes the shard over maxCost.
EntryConservation ==
  [][/\ \A k \in {last'.k} \cap Keys : \A g \in {getShard(k)} :
          /\ BalancedAt(g)
          /\ UpdatesInPlace(shards[g]) =>
               /\ Admissions(shards[g]) = 0
               /\ Ejections > 0 <=> OverCost(shards[g], k, last'.v)
     /\ last'.k \notin Keys => (shards' = shards /\ Ejections = 0)]_vars

\* C37 witness: a Set has updated a resident key in place and the update
\* evicted an entry for the cost limit.
UpdateEvictedForCost ==
  /\ ~closed /\ last.op = "Set" /\ last.pre = "live"
  /\ EvictsOf(metrics) # <<>>
  /\ EvictsOf(metrics)[1] = Ev("Evict", EvictCapacity, 0)

----------------------------------------------------------------------------
(* Write survival without cost limiting *)

\* The step is an Add, Set or SetWithTTL of key k on an open cache without
\* cost limiting.
Writes(k) == opt.MaxCost = 0 /\ ~closed /\ last'.op \in Stores /\ last'.k = k

\* The entry of k in shard t holds the value the step wrote.
Wrote1(k, t) == t.m[k] # NIL /\ heap'[t.m[k]].val = last'.v

\* C38: with MaxCost = 0, under LRU and 2Q, one Add, Set or SetWithTTL evicts
\* at most one entry, never the entry of its own key: after a Set, and after
\* an Add that returned true, the key is resident with the value written; an
\* Add that returned false evicts nothing.
WriteSurvives ==
  [][\A k \in {last'.k} \cap Keys :
       Writes(k) =>
         /\ Ejections <= 1
         /\ Len(EvictedKeys(last'.tr)) = Ejections
         /\ \A j \in 1..Len(EvictedKeys(last'.tr)) : EvictedKeys(last'.tr)[j] # k
         /\ (last'.op # "Add" \/ last'.ok) => Wrote1(k, shards'[getShard(k)])
         /\ (last'.op = "Add" /\ ~last'.ok) => Ejections = 0 /\ shards' = shards]_vars

\* C38 witness: under 2Q without cost limiting an Add has gone into a full
\* shard; exactly one entry, of another key, was evicted and the new key is
\* resident at the MRU end.
AddEvictedAnother ==
  /\ opt.Policy = "twoq" /\ opt.MaxCost = 0 /\ ~closed
  /\ last.op = "Add" /\ last.ok
  /\ Len(EvictsOf(metrics)) = 1 /\ Len(EvictedKeys(last.tr)) = 1
  /\ EvictedKeys(last.tr)[1] # last.k
  /\ Home(last.k).len = Home(last.k).cap
  /\ Home(last.k).head = Home(last.k).m[last.k] /\ Home(last.k).head # NIL

----------------------------------------------------------------------------
(* Expired entries stay resident until read *)

\* The step is the call op of key k on an open cache, and k is resident in
\* its shard with a deadline that has passed.
OnExpired(op, k) ==
  ~closed /\ last'.op = op /\ last'.k = k /\ last'.pre = "expired" /\ Pre(k) = "expired"

\* The number of entries in the maps of all shards.
InMaps == Cardinality({k \in Keys : Home(k).m[k] # NIL})

\* C39: while an entry whose deadline has passed has not been read, Add of
\* its key returns false and changes nothing (the entry is still expired, so
\* a following Get misses and evicts it with reason TTL); Len counts it;
\* Remove returns true, takes it out and emits no Evict event; Set and
\* SetWithTTL emit no Evict(TTL) event and, unless the updated entry is
\* evicted for cost, keep the same node with the new value and deadline.
ExpiredStaysUntilRead ==
  [][\A k \in {last'.k} \cap Keys :
       /\ OnExpired("Add", k) =>
            /\ ~last'.ok /\ shards' = shards /\ heap' = heap /\ metrics' = <<>>
            /\ onEvict' = <<>>
       /\ OnExpired("Get", k) =>
            /\ ~last'.ok /\ shards'[getShard(k)].m[k] = NIL
            /\ EvictsOf(metrics') = <<Ev("Evict", EvictTTL, 0)>>
       /\ OnExpired("Remove", k) =>
            /\ last'.ok /\ shards'[getShard(k)].m[k] = NIL
            /\ EvictsOf(metrics') = <<>> /\ onEvict' = <<>>
            /\ shards'[getShard(k)].len = Home(k).len - 1
       /\ \A op \in {"Set", "SetWithTTL"} : OnExpired(op, k) =>
            /\ ~HasReason(metrics', EvictTTL)
            /\ shards'[getShard(k)].m[k] \in {NIL, Home(k).m[k]}
            /\ shards'[getShard(k)].m[k] # NIL =>
                 /\ heap'[Home(k).m[k]].val = last'.v
                 /\ heap'[Home(k).m[k]].exp =
                      IF op = "Set" THEN defaultDeadline ELSE deadline(last'.ttl)
            /\ shards'[getShard(k)].m[k] = NIL => HasReason(metrics', EvictCapacity)]_vars
  /\ [](last.op = "Len" => last.val = InMaps)

\* C39 witness: an Add has found its key resident past the deadline and
\* returned false; the entry is still there, still expired, and a Len at
\* this point counts it.
AddRefusedByExpired ==
  /\ ~closed /\ last.op = "Add" /\ last.pre = "expired" /\ ~last.ok
  /\ Pre(last.k) = "expired"
  /\ cacheLen = InMaps /\ InMaps >= 1

----------------------------------------------------------------------------
(* GetOrLoad on a closed cache *)

\* Goroutine p takes the step that leaves pc.
Leaves(p, pc) == callers[p].pc = pc /\ callers'[p].pc # pc

\* What holds of every step of GetOrLoad on a closed cache, whoever leads:
\* the fast path and the double check miss even on a resident key, without a
\* Loader the call returns ErrNoLoader, the loader is invoked once by the
\* leader, nothing is stored, and the leader returns the loader's result.
ClosedSteps(p) ==
  /\ Leaves(p, "idle") =>
       /\ callers'[p].pc = IF opt.Loader = "nil" THEN "done" ELSE "do"
       /\ opt.Loader = "nil" => callers'[p].ret = [val |-> NIL, err |-> "noloader"]
  /\ Leaves(p, "fn") => callers'[p].pc = "load"
  /\ Leaves(p, "load") => loads'[callers[p].key] = loads[callers[p].key] + 1
  /\ Leaves(p, "set") => (callers[p].err = "nil" /\ callers'[p].pc = "publish")
  /\ Leaves(p, "unmark") =>
       callers'[p].ret = [val |-> callers[p].v, err |-> callers[p].err]
  /\ shards' = shards /\ heap' = heap

\* On a closed cache every call that reaches sf.Do runs the loader itself.
ClosedAlwaysLoads ==
  [][\A p \in Callers :
       closed => /\ ClosedSteps(p)
                 /\ Leaves(p, "do") => callers'[p].pc = "fn"]_vars

\* C40: on a closed cache GetOrLoad(ctx, k) with a Loader never answers from
\* the cache, even for a key that was resident at Close: a call that finds no
\* call for k in flight invokes the loader and returns its result, a call
\* that finds one waits for that call's result; nothing is stored; without a
\* Loader the call returns ErrNoLoader.
ClosedLoadsPerFlight ==
  [][\A p \in Callers :
       closed => /\ ClosedSteps(p)
                 /\ Leaves(p, "do") =>
                      callers'[p].pc = IF sf.m[callers[p].key] = NIL THEN "fn"
                                       ELSE "select"]_vars

\* C40 witness: on a closed cache that holds key k, a leader has returned the
\* value of a second loader call for k, and k's entry is as it was.
ClosedReloaded ==
  \E p \in Callers :
    /\ closed /\ Done(p) /\ callers[p].role = "leader"
    /\ callers[p].ret.err = "nil" /\ callers[p].ret.val \in env.vals
    /\ loads[callers[p].key] >= 2
    /\ Home(callers[p].key).m[callers[p].key] # NIL

====
